---- MODULE Spec2Model ----
(***************************************************************************)
(* etl-weather: the transform stage (src/src/etl_weather/transform.py),    *)
(* the PM2.5 classifiers (transform.py, report.py), the raw/processed      *)
(* files they read and write, the fetch stage (fetch.py), the command      *)
(* line (cli.py), the comparison (compare.py, web.py), the data endpoints   *)
(* of the web application (web.py), the report's recommendation            *)
(* (report.py), slugify and the fun-fact cache (utils.py), and one city's  *)
(* files under concurrent writers and readers.                             *)
(*                                                                         *)
(* Numbers are fixed-point integers: 1.0 is Unit, so 35.4 is 354000 and    *)
(* round(2) keeps multiples of Unit/100. JSON scalars, pandas cells and    *)
(* timestamps share one record shape [k, n, s] so that any two cells can   *)
(* be compared: k is the kind, n the number, s the text.                   *)
(*                                                                         *)
(* The fields of every record, and the elements of every set of strings,   *)
(* are written in the order TLC keeps them in (the order in which the      *)
(* names first occur in the module): each such value is then in TLC's      *)
(* normal form from the moment it is built, and no worker rearranges it    *)
(* while another one reads it.                                             *)
(***************************************************************************)
EXTENDS Integers, Sequences, FiniteSets, TLC

VARIABLES raw_weather, raw_air, proc_daily, proc_hourly, df, result, runs,
          frame_in, frame_out, cat_in, cat_out,
          fs, samples, now, fetched,
          req_in, req_out,
          cli_in, cli_out,
          cmp_in, cmp_out,
          response,
          rec_in, rec_out,
          slug_in, slug_out,
          fact_file, fact_calls,
          disk, procs

vars == <<raw_weather, raw_air, proc_daily, proc_hourly, df, result, runs,
          frame_in, frame_out, cat_in, cat_out,
          fs, samples, now, fetched, req_in, req_out, cli_in, cli_out,
          cmp_in, cmp_out, response, rec_in, rec_out, slug_in, slug_out,
          fact_file, fact_calls, disk, procs>>

transformVars == <<raw_weather, raw_air, proc_daily, proc_hourly, df, result, runs>>
frameVars == <<frame_in, frame_out>>
catVars == <<cat_in, cat_out>>
fetchVars == <<fs, samples, now, fetched>>
reqVars == <<req_in, req_out>>
cliVars == <<cli_in, cli_out>>
cmpVars == <<cmp_in, cmp_out>>
webVars == <<response>>
recVars == <<rec_in, rec_out>>
slugVars == <<slug_in, slug_out>>
factVars == <<fact_file, fact_calls>>
ioVars == <<disk, procs>>
auxVars == <<recVars, slugVars, factVars, ioVars>>
stageVars == <<fetchVars, reqVars, cliVars, cmpVars, auxVars>>

\* the parts of the state a specification does not use
FetchIdle == fs = <<>> /\ samples = {} /\ now = 0 /\ fetched = <<>>
ReqIdle == req_in = <<>> /\ req_out = <<>>
CliIdle == cli_in = <<>> /\ cli_out = <<>>
CmpIdle == cmp_in = <<>> /\ cmp_out = <<>>
WebIdle == response = <<>>
RecIdle == rec_in = <<>> /\ rec_out = <<>>
SlugIdle == slug_in = <<>> /\ slug_out = <<>>
FactIdle == fact_file = <<>> /\ fact_calls = <<>>
IoIdle == disk = <<>> /\ procs = <<>>

-----------------------------------------------------------------------------
(* Bounds of the model *)

\* longest "time" array of an hourly or daily block
MaxLen == 2

\* the classifier inputs lie within MaxDelta steps of 0.0001 around each threshold
MaxDelta == 4

\* the seconds of the clock that stamps the raw files: 1..MaxClock
MaxClock == 2

\* most names in the list of cities of a comparison
MaxCities == 3

-----------------------------------------------------------------------------
(* Cells *)

Unit == 100 * 100

Null == [k |-> "null", n |-> 0, s |-> ""]
Num(x) == [k |-> "num", n |-> x, s |-> ""]
Str(t) == [k |-> "str", n |-> 0, s |-> t]
Ts(d, h) == [k |-> "ts", n |-> d * 100 + h, s |-> ""]
Date(d) == [k |-> "date", n |-> d, s |-> ""]

\* pd.isna: None, NaN and NaT are all missing
IsNa(c) == c.k = "null"

\* a JSON member of a block: absent, null, a scalar, or a list of cells
Absent == [k |-> "absent", v |-> <<>>]
JNull == [k |-> "null", v |-> <<>>]
JScalar == [k |-> "scalar", v |-> <<>>]
JList(xs) == [k |-> "list", v |-> xs]

Nulls(n) == [i \in 1..n |-> Null]

RECURSIVE Concat(_)
Concat(ss) == IF ss = <<>> THEN <<>> ELSE Head(ss) \o Concat(Tail(ss))

Range(sq) == {sq[i] : i \in 1..Len(sq)}

-----------------------------------------------------------------------------
(* transform._safe_hourly_frame *)

\* dict.get(key, default): the member, or the default when the key is absent
Get(block, key, default) ==
    IF key \in DOMAIN block /\ block[key].k # "absent" THEN block[key] ELSE default

\* hourly.get("time", []) or []  -- a null (falsy) member gives the empty list
TimesOf(block) ==
    LET t == Get(block, "time", JList(<<>>))
    IN  IF t.k = "list" THEN t.v ELSE <<>>

\* if not isinstance(vals, list) or len(vals) != n: vals = [None] * n
FitNoLengthCheck(vals, n) == IF vals.k # "list" THEN Nulls(n) ELSE vals.v

Fit(vals, n) ==
    IF vals.k # "list" \/ Len(vals.v) # n THEN Nulls(n) ELSE vals.v

\* pd.DataFrame(data): ValueError unless all arrays have one length
PdDataFrame(columns, data) ==
    LET n == Len(data["time"])
    IN  IF \E c \in Range(columns) : Len(data[c]) # n
        THEN [columns |-> columns, err |-> "ValueError", rows |-> <<>>]
        ELSE [columns |-> columns, err |-> "",
              rows |-> [i \in 1..n |-> [c \in Range(columns) |-> data[c][i]]]]

SafeHourlyFrame(hourly, fields) ==
    LET times == TimesOf(hourly)
        n == Len(times)
        data == [c \in {"time"} \cup Range(fields) |->
                   IF c = "time" THEN times
                   ELSE Fit(Get(hourly, c, JList(<<>>)), n)]
    IN  PdDataFrame(<<"time">> \o fields, data)

-----------------------------------------------------------------------------
(* transform._categorize_pm25 and report._pm25_category *)

Good == 12 * Unit
Moderate == 354 * (Unit \div 10)
Sensitive == 554 * (Unit \div 10)
Unhealthy == 1504 * (Unit \div 10)
VeryUnhealthy == 2504 * (Unit \div 10)

Thresholds == <<Good, Moderate, Sensitive, Unhealthy, VeryUnhealthy>>

Labels == <<"Baik", "Sedang", "Tidak sehat (sensitif)", "Tidak sehat",
            "Sangat tidak sehat", "Berbahaya">>
Unknown == "Tidak diketahui"

CategorizePm25Strict(value) ==
    IF IsNa(value) THEN Unknown
    ELSE LET v == value.n
         IN  IF v < Good THEN Labels[1]
             ELSE IF v < Moderate THEN Labels[2]
             ELSE IF v < Sensitive THEN Labels[3]
             ELSE IF v < Unhealthy THEN Labels[4]
             ELSE IF v < VeryUnhealthy THEN Labels[5]
             ELSE Labels[6]

CategorizePm25NullIsGood(value) ==
    LET v == value.n
    IN  IF v <= Good THEN Labels[1]
        ELSE IF v <= Moderate THEN Labels[2]
        ELSE IF v <= Sensitive THEN Labels[3]
        ELSE IF v <= Unhealthy THEN Labels[4]
        ELSE IF v <= VeryUnhealthy THEN Labels[5]
        ELSE Labels[6]

CategorizePm25(value) ==
    IF IsNa(value) THEN Unknown
    ELSE LET v == value.n
         IN  IF v <= Good THEN Labels[1]
             ELSE IF v <= Moderate THEN Labels[2]
             ELSE IF v <= Sensitive THEN Labels[3]
             ELSE IF v <= Unhealthy THEN Labels[4]
             ELSE IF v <= VeryUnhealthy THEN Labels[5]
             ELSE Labels[6]

\* _pm25_category if 55.4 itself already counted as "Tidak sehat"
Pm25CategoryBelow554(avg_pm25) ==
    IF IsNa(avg_pm25) THEN Unknown
    ELSE LET v == avg_pm25.n
         IN  IF v <= Good THEN Labels[1]
             ELSE IF v <= Moderate THEN Labels[2]
             ELSE IF v < Sensitive THEN Labels[3]
             ELSE IF v <= Unhealthy THEN Labels[4]
             ELSE IF v <= VeryUnhealthy THEN Labels[5]
             ELSE Labels[6]

Pm25Category(avg_pm25) ==
    IF IsNa(avg_pm25) THEN Unknown
    ELSE LET v == avg_pm25.n
         IN  IF v <= Good THEN Labels[1]
             ELSE IF v <= Moderate THEN Labels[2]
             ELSE IF v <= Sensitive THEN Labels[3]
             ELSE IF v <= Unhealthy THEN Labels[4]
             ELSE IF v <= VeryUnhealthy THEN Labels[5]
             ELSE Labels[6]

-----------------------------------------------------------------------------
(* Text: the strings of the model, their lexicographic order and parsers *)

\* position of a string in lexicographic order (str.__lt__), for sort_values
LexRank(s) ==
    CASE s = "" -> 0
      [] s = "1.5" -> 1
      [] s = "2025-01-01" -> 2
      [] s = "2025-01-01T00:00" -> 3
      [] s = "2025-01-01T01:00" -> 4
      [] s = "2025-01-01T06:00" -> 5
      [] s = "2025-01-01T18:00" -> 6
      [] s = "2025-01-02" -> 7
      [] s = "2025-01-02T00:00" -> 8
      [] s = "2025-01-02T06:00" -> 9
      [] s = "2025-01-03" -> 10
      [] s = "2025-01-03T00:00" -> 11
      [] s = "n/a" -> 12
      [] OTHER -> 13

\* pd.to_datetime(text, errors="coerce")
ParseTime(s) ==
    CASE s = "2025-01-01" -> Ts(20250101, 0)
      [] s = "2025-01-01T00:00" -> Ts(20250101, 0)
      [] s = "2025-01-01T01:00" -> Ts(20250101, 1)
      [] s = "2025-01-01T06:00" -> Ts(20250101, 6)
      [] s = "2025-01-01T18:00" -> Ts(20250101, 18)
      [] s = "2025-01-02" -> Ts(20250102, 0)
      [] s = "2025-01-02T00:00" -> Ts(20250102, 0)
      [] s = "2025-01-02T06:00" -> Ts(20250102, 6)
      [] s = "2025-01-03" -> Ts(20250103, 0)
      [] s = "2025-01-03T00:00" -> Ts(20250103, 0)
      [] OTHER -> Null

\* pd.to_numeric(text, errors="coerce")
ParseNumber(s) ==
    CASE s = "1.5" -> Num(15 * (Unit \div 10))
      [] OTHER -> Null

ToNumeric(c) ==
    IF c.k = "num" THEN c
    ELSE IF c.k = "str" THEN ParseNumber(c.s)
    ELSE Null

ToDatetime(c) ==
    IF c.k = "str" THEN ParseTime(c.s)
    ELSE IF c.k = "ts" THEN c
    ELSE Null

\* Series.dt.date
DtDate(c) == IF c.k = "ts" THEN Date(c.n \div 100) ELSE Null

\* order of the cells of one column: missing cells last (na_position="last")
CellRank(c) ==
    IF c.k = "str" THEN LexRank(c.s)
    ELSE IF c.k = "null" THEN 2 * 1000 * 1000 * 1000
    ELSE c.n

-----------------------------------------------------------------------------
(* Frames: [err, columns, rows], a row being a function column -> cell *)

ShortName(c) ==
    CASE c = "temperature_2m" -> "temp"
      [] c = "precipitation" -> "rain"
      [] c = "relative_humidity_2m" -> "rh"
      [] c = "wind_speed_10m" -> "wind"
      [] c = "apparent_temperature" -> "feels_like"
      [] c = "weather_code" -> "wcode"
      [] c = "pm2_5" -> "pm25"
      [] OTHER -> c

\* DataFrame.rename(columns=...)
Rename(frame) ==
    [columns |-> [i \in 1..Len(frame.columns) |-> ShortName(frame.columns[i])],
     err |-> frame.err,
     rows |-> [i \in 1..Len(frame.rows) |->
                 [c \in {ShortName(x) : x \in DOMAIN frame.rows[i]} |->
                    frame.rows[i][CHOOSE x \in DOMAIN frame.rows[i] : ShortName(x) = c]]]]

ColumnOf(rows, c) == [i \in 1..Len(rows) |-> rows[i][c]]

\* the cells of a set in ascending order
RECURSIVE SortedCells(_)
SortedCells(S) ==
    IF S = {} THEN <<>>
    ELSE LET m == CHOOSE x \in S : \A y \in S : CellRank(x) <= CellRank(y)
         IN  <<m>> \o SortedCells(S \ {m})

\* stable insertion of a row into rows sorted by column c
RECURSIVE InsertRow(_, _, _)
InsertRow(row, rows, c) ==
    IF rows = <<>> THEN <<row>>
    ELSE IF CellRank(row[c]) < CellRank(Head(rows)[c]) THEN <<row>> \o rows
    ELSE <<Head(rows)>> \o InsertRow(row, Tail(rows), c)

\* DataFrame.sort_values(c): ascending, equal keys keep their order
RECURSIVE SortValues(_, _)
SortValues(rows, c) ==
    IF rows = <<>> THEN <<>>
    ELSE InsertRow(rows[Len(rows)], SortValues(SubSeq(rows, 1, Len(rows) - 1), c), c)

RowsWith(rows, c, key) == SelectSeq(rows, LAMBDA r : r[c] = key)

NullRow(columns) == [c \in Range(columns) |-> Null]

Without(columns, c) == SelectSeq(columns, LAMBDA x : x # c)

\* the rows pd.merge emits for one key: every left row paired with every right row,
\* and a side without the key filled with missing cells
Pairs(lk, rk, lcols, rcols) ==
    IF lk = <<>> THEN [j \in 1..Len(rk) |-> rk[j] @@ NullRow(lcols)]
    ELSE IF rk = <<>> THEN [j \in 1..Len(lk) |-> lk[j] @@ NullRow(rcols)]
    ELSE [j \in 1..(Len(lk) * Len(rk)) |->
            lk[((j - 1) \div Len(rk)) + 1] @@ rk[((j - 1) % Len(rk)) + 1]]

\* pd.merge(left, right, on=c, how="outer"): the union of the keys in sorted order
MergeOuter(left, right, c) ==
    LET keys == SortedCells(Range(ColumnOf(left.rows, c)) \cup Range(ColumnOf(right.rows, c)))
        lcols == Without(left.columns, c)
        rcols == Without(right.columns, c)
    IN  [columns |-> left.columns \o rcols,
         err |-> IF left.err # "" THEN left.err ELSE right.err,
         rows |-> Concat([i \in 1..Len(keys) |->
                     Pairs(RowsWith(left.rows, c, keys[i]),
                           RowsWith(right.rows, c, keys[i]), lcols, rcols)])]

\* left.merge(right, on=c, how="left"): the left rows in their order
MergeLeft(left, right, c) ==
    LET rcols == Without(right.columns, c)
    IN  [columns |-> left.columns \o rcols,
         err |-> IF left.err # "" THEN left.err ELSE right.err,
         rows |-> Concat([i \in 1..Len(left.rows) |->
                     Pairs(<<left.rows[i]>>,
                           RowsWith(right.rows, c, left.rows[i][c]), <<>>, rcols)])]

\* df[col] = pd.to_numeric(df[col], errors="coerce") for the columns named
NumericColumns(rows, cols) ==
    [i \in 1..Len(rows) |->
        [c \in DOMAIN rows[i] |-> IF c \in cols THEN ToNumeric(rows[i][c]) ELSE rows[i][c]]]

\* df["time"] = pd.to_datetime(df["time"], errors="coerce")
DatetimeColumn(rows, col) ==
    [i \in 1..Len(rows) |->
        [c \in DOMAIN rows[i] |-> IF c = col THEN ToDatetime(rows[i][c]) ELSE rows[i][c]]]

\* df.dropna(subset=[c])
DropNa(rows, c) == SelectSeq(rows, LAMBDA r : ~IsNa(r[c]))

-----------------------------------------------------------------------------
(* Aggregates of a group's column (pandas skips missing cells) *)

NonNull(cells) == SelectSeq(cells, LAMBDA c : ~IsNa(c))

RECURSIVE SumOf(_)
SumOf(cells) == IF cells = <<>> THEN 0 ELSE Head(cells).n + SumOf(Tail(cells))

\* ("temp", "min") and ("temp", "max")
AggMin(cells) ==
    LET nn == NonNull(cells)
    IN  IF nn = <<>> THEN Null
        ELSE Num(CHOOSE x \in {c.n : c \in Range(nn)} : \A c \in Range(nn) : x <= c.n)

AggMax(cells) ==
    LET nn == NonNull(cells)
    IN  IF nn = <<>> THEN Null
        ELSE Num(CHOOSE x \in {c.n : c \in Range(nn)} : \A c \in Range(nn) : x >= c.n)

\* ("rain", "sum"): the sum of no cells is 0
AggSum(cells) == Num(SumOf(NonNull(cells)))

\* Series.fillna(0.0)
FillNa0(c) == IF IsNa(c) THEN Num(0) ELSE c

\* num/den rounded to 2 decimals, ties to the even hundredth (numpy.round)
Round2(num, den) ==
    LET cent == Unit \div 100
        d == den * cent
        f == num \div d
        r == num % d
        q == IF 2 * r < d THEN f
             ELSE IF 2 * r > d THEN f + 1
             ELSE IF f % 2 = 0 THEN f ELSE f + 1
    IN  Num(q * cent)

\* DataFrame.round(2) of one cell
Round(c) == IF IsNa(c) THEN c ELSE Round2(c.n, 1)

\* total_rain: ("rain", "sum"), fillna(0.0), round(2)
TotalRainNullWhenEmpty(cells) ==
    IF NonNull(cells) = <<>> THEN Null ELSE Round(AggSum(cells))

TotalRain(cells) == Round(FillNa0(AggSum(cells)))

\* pm25_avg, pm10_avg: (col, "mean") over the cells present, then round(2)
MeanOverAllRows(cells) ==
    IF cells = <<>> THEN Null ELSE Round2(SumOf(NonNull(cells)), Len(cells))

MeanRounded(cells) ==
    LET nn == NonNull(cells)
    IN  IF nn = <<>> THEN Null ELSE Round2(SumOf(nn), Len(nn))

DailyColumns ==
    <<"date", "temp_min", "temp_max", "total_rain", "pm25_avg", "pm10_avg", "pm25_category">>

\* groupby("date").agg(...), fillna, round and the category of one date
DailyRow(d, rows) ==
    LET g == RowsWith(rows, "date", d)
        avg == MeanRounded(ColumnOf(g, "pm25"))
    IN  [c \in Range(DailyColumns) |->
           CASE c = "date" -> d
             [] c = "temp_min" -> Round(AggMin(ColumnOf(g, "temp")))
             [] c = "temp_max" -> Round(AggMax(ColumnOf(g, "temp")))
             [] c = "total_rain" -> TotalRain(ColumnOf(g, "rain"))
             [] c = "pm25_avg" -> avg
             [] c = "pm10_avg" -> MeanRounded(ColumnOf(g, "pm10"))
             [] OTHER -> Str(CategorizePm25(avg))]

\* one row per group key, in ascending order of the key
GroupByDate(rows) ==
    LET dates == SortedCells(Range(ColumnOf(rows, "date")))
    IN  [i \in 1..Len(dates) |-> DailyRow(dates[i], rows)]

-----------------------------------------------------------------------------
(* Raw JSON documents: [k, hourly, daily], a block being [k, m] with m the *)
(* members of the object when k = "dict"                                   *)

NoBlock == [k |-> "absent", m |-> <<>>]
Dict(m) == [k |-> "dict", m |-> m]
NotADict(kind) == [k |-> kind, m |-> <<>>]

Doc(hourly, daily) == [k |-> "dict", hourly |-> hourly, daily |-> daily]
NoFile == [exists |-> FALSE, doc |-> Doc(NoBlock, NoBlock)]
File(doc) == [exists |-> TRUE, doc |-> doc]

\* weather.get("hourly", {}) followed by the first hourly.get(...) of
\* _safe_hourly_frame: AttributeError unless both are dicts
HourlyOf(doc) ==
    IF doc.k # "dict" THEN [err |-> "AttributeError", m |-> <<>>]
    ELSE IF doc.hourly.k = "absent" THEN [err |-> "", m |-> <<>>]
    ELSE IF doc.hourly.k = "dict" THEN [err |-> "", m |-> doc.hourly.m]
    ELSE [err |-> "AttributeError", m |-> <<>>]

WeatherFields == <<"temperature_2m", "precipitation">>
WeatherFieldsHourly ==
    <<"temperature_2m", "precipitation", "relative_humidity_2m", "wind_speed_10m",
      "apparent_temperature", "weather_code">>
AirFields == <<"pm2_5", "pm10">>

WithDate(rows) ==
    [i \in 1..Len(rows) |-> rows[i] @@ ("date" :> DtDate(rows[i]["time"]))]

\* run, lines 67-86: the joined hourly table, typed, dated, rows without a date dropped
JoinedHourly(weather, air) ==
    LET w == HourlyOf(weather)
        a == HourlyOf(air)
        hw == Rename(SafeHourlyFrame(w.m, WeatherFields))
        ha == Rename(SafeHourlyFrame(a.m, AirFields))
        merged == MergeOuter(hw, ha, "time")
        sorted == SortValues(merged.rows, "time")
        typed == NumericColumns(sorted, {"temp", "rain", "pm25", "pm10"})
        timed == DatetimeColumn(typed, "time")
    IN  [columns |-> merged.columns \o <<"date">>,
         err |-> IF w.err # "" THEN w.err ELSE IF a.err # "" THEN a.err ELSE merged.err,
         rows |-> IF w.err # "" \/ a.err # "" \/ merged.err # "" THEN <<>>
                  ELSE DropNa(WithDate(timed), "date")]

\* run_hourly, lines 166-207: the same join with the optional weather fields;
\* weather_code is not coerced
JoinedHourlyAll(weather, air) ==
    LET w == HourlyOf(weather)
        a == HourlyOf(air)
        hw == Rename(SafeHourlyFrame(w.m, WeatherFieldsHourly))
        ha == Rename(SafeHourlyFrame(a.m, AirFields))
        merged == MergeOuter(hw, ha, "time")
        sorted == SortValues(merged.rows, "time")
        typed == NumericColumns(sorted,
                     {"temp", "rain", "pm25", "pm10", "rh", "wind", "feels_like"})
        timed == DropNa(DatetimeColumn(typed, "time"), "time")
    IN  [columns |-> merged.columns \o <<"date">>,
         err |-> IF w.err # "" THEN w.err ELSE IF a.err # "" THEN a.err ELSE merged.err,
         rows |-> IF w.err # "" \/ a.err # "" \/ merged.err # "" THEN <<>>
                  ELSE WithDate(timed)]

\* bool(w_daily.get(key)): a non-empty list or a non-empty scalar
Truthy(block, key) ==
    LET x == Get(block, key, JNull)
    IN  (x.k = "list" /\ x.v # <<>>) \/ x.k = "scalar"

\* _fit of run: vals = vals or []; the list if it has n entries, else n missing cells
FitDaily(vals, n) ==
    IF vals.k # "list" \/ Len(vals.v) # n THEN Nulls(n) ELSE vals.v

\* run, lines 112-133: sunrise and sunset of the weather "daily" block, left-joined
MergeDaily(daily, weather) ==
    LET wd == weather.daily
        times == TimesOf(wd.m)
        n == Len(times)
        sunrise == FitDaily(Get(wd.m, "sunrise", JList(<<>>)), n)
        sunset == FitDaily(Get(wd.m, "sunset", JList(<<>>)), n)
        dapi == [columns |-> <<"date", "sunrise", "sunset">>, err |-> "",
                 rows |-> DropNa([i \in 1..n |->
                            [c \in {"sunrise", "sunset", "date"} |->
                               CASE c = "date" -> DtDate(ToDatetime(times[i]))
                                 [] c = "sunrise" -> sunrise[i]
                                 [] OTHER -> sunset[i]]], "date")]
    IN  IF wd.k = "dict" /\ (Truthy(wd.m, "time") \/ Truthy(wd.m, "sunrise")
                               \/ Truthy(wd.m, "sunset"))
        THEN MergeLeft(daily, dapi, "date")
        ELSE daily

\* run, lines 89-133: the daily table written to <slug>_daily.csv
DailyTable(hourly, weather) ==
    MergeDaily([columns |-> DailyColumns, err |-> hourly.err,
                rows |-> GroupByDate(hourly.rows)], weather)

-----------------------------------------------------------------------------
(* Processed files and the outcome of the last call *)

NoTable == [columns |-> <<>>, rows |-> <<>>]
NoCsv == [exists |-> FALSE, table |-> NoTable]
Csv(frame) == [exists |-> TRUE, table |-> [columns |-> frame.columns, rows |-> frame.rows]]

\* if not weather_path.exists() or not air_path.exists()
RawMissingBoth(weather_file, air_file) == ~weather_file.exists /\ ~air_file.exists

RawMissing(weather_file, air_file) == ~weather_file.exists \/ ~air_file.exists

\* json.loads(path.read_text()): the file must exist
LoadErr(weather_file, air_file) ==
    IF ~weather_file.exists \/ ~air_file.exists THEN "FileNotFoundError(read_text)" ELSE ""

MissingInput == "FileNotFoundError(File raw belum tersedia)"

Idle == [op |-> "none", outcome |-> ""]

\* what a call raises, if anything: the missing-input check, then the reads,
\* then the pipeline
Raised(weather_file, air_file, pipeline_err) ==
    IF RawMissing(weather_file, air_file) THEN MissingInput
    ELSE IF LoadErr(weather_file, air_file) # "" THEN LoadErr(weather_file, air_file)
    ELSE pipeline_err

\* transform.run with daily.to_csv(out_file, mode="a"): rows are added to the file on disk
RunAppending ==
    \E hourly \in {JoinedHourly(raw_weather.doc, raw_air.doc)} :
    \E daily \in {DailyTable(hourly, raw_weather.doc)} :
    \E err \in {Raised(raw_weather, raw_air, daily.err)} :
        /\ result' = [op |-> "run", outcome |-> IF err = "" THEN "ok" ELSE err]
        /\ runs' = IF runs < 2 THEN runs + 1 ELSE runs
        /\ IF err = ""
           THEN /\ df' = hourly.rows
                /\ proc_daily' = [exists |-> TRUE,
                                  table |-> [columns |-> daily.columns,
                                             rows |-> proc_daily.table.rows \o daily.rows]]
           ELSE UNCHANGED <<df, proc_daily>>
        /\ UNCHANGED <<raw_weather, raw_air, proc_hourly, frameVars, catVars, stageVars, webVars>>

\* transform.run
Run ==
    \E hourly \in {JoinedHourly(raw_weather.doc, raw_air.doc)} :
    \E daily \in {DailyTable(hourly, raw_weather.doc)} :
    \E err \in {Raised(raw_weather, raw_air, daily.err)} :
        /\ result' = [op |-> "run", outcome |-> IF err = "" THEN "ok" ELSE err]
        /\ runs' = IF runs < 2 THEN runs + 1 ELSE runs
        /\ IF err = ""
           THEN /\ df' = hourly.rows
                /\ proc_daily' = Csv(daily)
           ELSE UNCHANGED <<df, proc_daily>>
        /\ UNCHANGED <<raw_weather, raw_air, proc_hourly, frameVars, catVars, stageVars, webVars>>

\* transform.run_hourly
RunHourly ==
    \E hourly \in {JoinedHourlyAll(raw_weather.doc, raw_air.doc)} :
    \E err \in {Raised(raw_weather, raw_air, hourly.err)} :
        /\ result' = [op |-> "run_hourly", outcome |-> IF err = "" THEN "ok" ELSE err]
        /\ IF err = ""
           THEN proc_hourly' = Csv(hourly)
           ELSE UNCHANGED proc_hourly
        /\ UNCHANGED <<raw_weather, raw_air, proc_daily, df, runs, frameVars, catVars, stageVars, webVars>>

-----------------------------------------------------------------------------
(* The raw documents the model starts from *)

HourStrings == {"2025-01-01T00:00", "2025-01-01T01:00", "2025-01-02T00:00", "n/a"}
DateStrings == {"2025-01-01", "2025-01-03", "n/a"}

\* an hourly forecast as the API returns it: ascending hours
HourSeq == <<"2025-01-01T00:00", "2025-01-01T01:00", "2025-01-02T00:00", "2025-01-03T00:00">>

SeqsUpTo(S, n) == UNION {[1..j -> S] : j \in 0..n}

StrList(ts) == [i \in 1..Len(ts) |-> Str(ts[i])]

Cyc(sq, i) == sq[((i - 1) % Len(sq)) + 1]

Tenth == Unit \div 10

\* the i-th value an API returns for a field
SampleAt(field, i) ==
    CASE field = "temperature_2m" -> Num(Cyc(<<200 * Tenth, 240 * Tenth, 225 * Tenth, 190 * Tenth>>, i))
      [] field = "precipitation" -> Num(Cyc(<<0, 15 * Tenth, 2 * Tenth, 0>>, i))
      [] field = "pm2_5" -> Num(Cyc(<<100 * Tenth, 140 * Tenth, 115 * Tenth, 400 * Tenth>>, i))
      [] field = "pm10" -> Num(Cyc(<<200 * Tenth, 220 * Tenth, 210 * Tenth, 500 * Tenth>>, i))
      [] field = "relative_humidity_2m" -> Num(Cyc(<<800 * Tenth, 750 * Tenth>>, i))
      [] field = "wind_speed_10m" -> Num(Cyc(<<50 * Tenth, 120 * Tenth>>, i))
      [] field = "apparent_temperature" -> Num(Cyc(<<210 * Tenth, 260 * Tenth>>, i))
      [] field = "weather_code" -> Num(Cyc(<<3 * Unit, 61 * Unit>>, i))
      [] field = "sunrise" -> Str(Cyc(<<"2025-01-01T06:00", "2025-01-02T06:00">>, i))
      [] OTHER -> Str(Cyc(<<"2025-01-01T18:00", "2025-01-01T18:00">>, i))

Sample(field, n) == JList([i \in 1..n |-> SampleAt(field, i)])

\* the values a cell of a field is drawn from
ValueSet(field) ==
    CASE field = "temperature_2m" ->
            {Null, Num(20 * Unit), Num(24 * Unit), Num(0 - (Unit \div 8))}
      [] field = "precipitation" ->
            {Null, Str("n/a"), Num(0), Num(15 * Tenth)}
      [] field = "pm2_5" ->
            {Null, Num(10 * Unit), Num(14 * Unit), Num(10 * Unit + (Unit \div 100))}
      [] OTHER ->
            {Null, Str("1.5"), Num(20 * Unit), Num(22 * Unit)}

\* the shapes a member of a block is drawn from, for a block of n timestamps
Shapes == {"null", "absent", "scalar", "list", "short", "long"}

Shaped(field, shape, n) ==
    CASE shape = "list" -> Sample(field, n)
      [] shape = "absent" -> Absent
      [] shape = "null" -> JNull
      [] shape = "scalar" -> JScalar
      [] shape = "short" -> Sample(field, IF n = 0 THEN 1 ELSE n - 1)
      [] OTHER -> Sample(field, n + 1)

WeatherHourly(times, temp, rain, extras) ==
    Dict(("time" :> times) @@ ("temperature_2m" :> temp) @@ ("precipitation" :> rain)
         @@ [f \in {"relative_humidity_2m", "wind_speed_10m", "apparent_temperature",
                    "weather_code"} |->
               IF extras /\ times.k = "list" THEN Sample(f, Len(times.v)) ELSE Absent])

AirHourly(times, pm25, pm10) ==
    Dict(("time" :> times) @@ ("pm2_5" :> pm25) @@ ("pm10" :> pm10))

DailyBlock(times, sunrise, sunset) ==
    Dict(("time" :> times) @@ ("sunrise" :> sunrise) @@ ("sunset" :> sunset))

\* complete, aligned documents for the hours ts
SampleWeather(ts) ==
    Doc(WeatherHourly(JList(StrList(ts)), Sample("temperature_2m", Len(ts)),
                      Sample("precipitation", Len(ts)), FALSE), NoBlock)

SampleAir(ts) ==
    Doc(AirHourly(JList(StrList(ts)), Sample("pm2_5", Len(ts)), Sample("pm10", Len(ts))),
        NoBlock)

Scenario == SubSeq(HourSeq, 1, MaxLen)

\* a raw file by the state it is in
SourceStates ==
    {"ok", "nofile", "notdict", "hourly_absent", "hourly_null",
     "hourly_scalar", "time_absent", "time_null"}

SourceFile(doc, state) ==
    CASE state = "nofile" -> NoFile
      [] state = "notdict" -> File([doc EXCEPT !.k = "other"])
      [] state = "hourly_absent" -> File([doc EXCEPT !.hourly = NoBlock])
      [] state = "hourly_null" -> File([doc EXCEPT !.hourly = NotADict("null")])
      [] state = "hourly_scalar" -> File([doc EXCEPT !.hourly = NotADict("scalar")])
      [] state = "time_absent" -> File([doc EXCEPT !.hourly.m["time"] = Absent])
      [] state = "time_null" -> File([doc EXCEPT !.hourly.m["time"] = JNull])
      [] OTHER -> File(doc)

StaleCsv == [exists |-> TRUE, table |-> [columns |-> DailyColumns, rows |-> <<>>]]

NoProcessed ==
    /\ proc_daily = NoCsv
    /\ proc_hourly = NoCsv

\* the two sources disagree on which hours they report
InitJoin ==
    \E wt \in SeqsUpTo(HourStrings, MaxLen), at \in SeqsUpTo(HourStrings, MaxLen) :
        /\ raw_weather = File(SampleWeather(wt))
        /\ raw_air = File(SampleAir(at))
        /\ NoProcessed

\* one source reports arbitrary cells for its two fields
InitValues ==
    \/ \E temp \in [1..MaxLen -> ValueSet("temperature_2m")],
          rain \in [1..MaxLen -> ValueSet("precipitation")] :
        /\ raw_weather = File(Doc(WeatherHourly(JList(StrList(Scenario)), JList(temp),
                                                JList(rain), FALSE), NoBlock))
        /\ raw_air = File(SampleAir(Scenario))
        /\ NoProcessed
    \/ \E pm25 \in [1..MaxLen -> ValueSet("pm2_5")],
          pm10 \in [1..MaxLen -> ValueSet("pm10")] :
        /\ raw_weather = File(SampleWeather(Scenario))
        /\ raw_air = File(Doc(AirHourly(JList(StrList(Scenario)), JList(pm25), JList(pm10)),
                              NoBlock))
        /\ NoProcessed

\* every declared field is missing, not a list, or of the wrong length
InitShapes ==
    \E st, sr, s25, s10 \in Shapes, extras \in BOOLEAN :
        /\ raw_weather = File(Doc(WeatherHourly(JList(StrList(Scenario)),
                                   Shaped("temperature_2m", st, MaxLen),
                                   Shaped("precipitation", sr, MaxLen), extras), NoBlock))
        /\ raw_air = File(Doc(AirHourly(JList(StrList(Scenario)),
                               Shaped("pm2_5", s25, MaxLen),
                               Shaped("pm10", s10, MaxLen)), NoBlock))
        /\ NoProcessed

\* a file is missing, or its document or hourly block is not what is expected
InitFiles ==
    \E ws \in SourceStates, as \in SourceStates, stale \in BOOLEAN :
        /\ raw_weather = SourceFile(SampleWeather(Scenario), ws)
        /\ raw_air = SourceFile(SampleAir(Scenario), as)
        /\ proc_daily = IF stale THEN StaleCsv ELSE NoCsv
        /\ proc_hourly = NoCsv

DailyHours == <<"2025-01-01T00:00", "2025-01-02T00:00">>

\* the weather document carries a "daily" block of any content
InitDaily ==
    \/ \E dk \in {"null", "scalar"} :
        /\ raw_weather = File([SampleWeather(DailyHours) EXCEPT !.daily = NotADict(dk)])
        /\ raw_air = File(SampleAir(DailyHours))
        /\ NoProcessed
    \/ \E dt \in SeqsUpTo(DateStrings, MaxLen), tk \in {"null", "absent", "list"},
          sr \in Shapes, ss \in Shapes :
        /\ tk # "list" => dt = <<>>
        /\ raw_weather = File([SampleWeather(DailyHours) EXCEPT !.daily =
                DailyBlock(CASE tk = "list" -> JList(StrList(dt))
                             [] tk = "absent" -> Absent
                             [] OTHER -> JNull,
                           Shaped("sunrise", sr, Len(dt)),
                           Shaped("sunset", ss, Len(dt)))])
        /\ raw_air = File(SampleAir(DailyHours))
        /\ NoProcessed

Init ==
    /\ InitValues \/ InitJoin \/ InitShapes \/ InitFiles \/ InitDaily
    /\ df = <<>>
    /\ result = Idle
    /\ runs = 0
    /\ frame_in = <<>>
    /\ frame_out = <<>>
    /\ cat_in = Null
    /\ cat_out = <<>>
    /\ FetchIdle /\ ReqIdle /\ CliIdle /\ CmpIdle /\ WebIdle
    /\ RecIdle /\ SlugIdle /\ FactIdle /\ IoIdle

Next == Run \/ RunHourly

Spec == Init /\ [][Next]_vars

-----------------------------------------------------------------------------
(* _safe_hourly_frame on its own: every block, two or six declared fields *)

FieldLists == {AirFields, WeatherFieldsHourly}

\* the block whose fields alternate between two shapes
ShapedBlock(times, fields, s1, s2) ==
    LET n == IF times.k = "list" THEN Len(times.v) ELSE 0
    IN  ("time" :> times) @@
        [f \in Range(fields) |->
           LET i == CHOOSE j \in 1..Len(fields) : fields[j] = f
           IN  Shaped(f, IF i % 2 = 1 THEN s1 ELSE s2, n)]

InitFrame ==
    /\ \E ts \in SeqsUpTo(HourStrings, MaxLen), tk \in {"null", "absent", "list"},
          fields \in FieldLists, s1 \in Shapes, s2 \in Shapes :
        /\ tk # "list" => ts = <<>>
        /\ frame_in = [hourly |-> ShapedBlock(CASE tk = "list" -> JList(StrList(ts))
                                                [] tk = "absent" -> Absent
                                                [] OTHER -> JNull, fields, s1, s2),
                       fields |-> fields]
    /\ frame_out = <<>>
    /\ raw_weather = NoFile
    /\ raw_air = NoFile
    /\ NoProcessed
    /\ df = <<>>
    /\ result = Idle
    /\ runs = 0
    /\ cat_in = Null
    /\ cat_out = <<>>
    /\ FetchIdle /\ ReqIdle /\ CliIdle /\ CmpIdle /\ WebIdle
    /\ RecIdle /\ SlugIdle /\ FactIdle /\ IoIdle

CallSafeHourlyFrame ==
    /\ frame_out = <<>>
    /\ frame_out' = <<SafeHourlyFrame(frame_in.hourly, frame_in.fields)>>
    /\ UNCHANGED <<frame_in, transformVars, catVars, stageVars, webVars>>

FrameSpec == InitFrame /\ [][CallSafeHourlyFrame]_vars

-----------------------------------------------------------------------------
(* The two classifiers on their own: values around every threshold *)

CatInputs ==
    {Null} \cup {Num(t + d) : t \in Range(Thresholds) \cup {0}, d \in (0 - MaxDelta)..MaxDelta}

InitCat ==
    /\ cat_in \in CatInputs
    /\ cat_out = <<>>
    /\ raw_weather = NoFile
    /\ raw_air = NoFile
    /\ NoProcessed
    /\ df = <<>>
    /\ result = Idle
    /\ runs = 0
    /\ frame_in = <<>>
    /\ frame_out = <<>>
    /\ FetchIdle /\ ReqIdle /\ CliIdle /\ CmpIdle /\ WebIdle
    /\ RecIdle /\ SlugIdle /\ FactIdle /\ IoIdle

\* transform._categorize_pm25(value)
CallCategorizePm25 ==
    /\ cat_out' = <<[fn |-> "transform._categorize_pm25", label |-> CategorizePm25(cat_in)]>>
    /\ UNCHANGED <<cat_in, transformVars, frameVars, stageVars, webVars>>

\* report._pm25_category(avg_pm25)
CallPm25Category ==
    /\ cat_out' = <<[fn |-> "report._pm25_category", label |-> Pm25Category(cat_in)]>>
    /\ UNCHANGED <<cat_in, transformVars, frameVars, stageVars, webVars>>

NextCat == CallCategorizePm25 \/ CallPm25Category

CatSpec == InitCat /\ [][NextCat]_vars

-----------------------------------------------------------------------------
(* Properties of _safe_hourly_frame (FrameSpec) *)

\* the length of the "time" list of a block, 0 when it is absent or null
TimeLen(m) == IF m["time"].k = "list" THEN Len(m["time"].v) ELSE 0

\* C1: for every hourly block and every declared field, a field that is absent, not
\* a list, or of a length other than that of "time" is null in every row of the frame;
\* the frame always has len(time) rows (0 when "time" is absent or null), one column
\* per declared field plus "time", and building it raises nothing.
C1_RaggedArraySafety ==
    frame_out # <<>> =>
        LET f == frame_out[1]
            m == frame_in.hourly
            fields == frame_in.fields
            n == TimeLen(m)
        IN  /\ f.err = ""
            /\ Len(f.rows) = n
            /\ f.columns = <<"time">> \o fields
            /\ \A i \in 1..Len(f.rows) : DOMAIN f.rows[i] = {"time"} \cup Range(fields)
            /\ \A c \in Range(fields) :
                 (m[c].k # "list" \/ Len(m[c].v) # n) =>
                     \A i \in 1..Len(f.rows) : f.rows[i][c] = Null

\* a frame was built from a block of two or more timestamps with one field a list that
\* is one entry short and another an aligned list
C1_Witness ==
    /\ frame_out # <<>>
    /\ TimeLen(frame_in.hourly) >= 2
    /\ \E c \in Range(frame_in.fields) :
         /\ frame_in.hourly[c].k = "list"
         /\ Len(frame_in.hourly[c].v) = TimeLen(frame_in.hourly) - 1
    /\ \E c \in Range(frame_in.fields) :
         /\ frame_in.hourly[c].k = "list"
         /\ Len(frame_in.hourly[c].v) = TimeLen(frame_in.hourly)
         /\ \A i \in 1..Len(frame_out[1].rows) :
              frame_out[1].rows[i][c] = frame_in.hourly[c].v[i]

-----------------------------------------------------------------------------
(* Properties of the classifiers (CatSpec) *)

Severity(label) == CHOOSE i \in 1..Len(Labels) : Labels[i] = label

Classify(fn, value) ==
    IF fn = "transform._categorize_pm25" THEN CategorizePm25(value) ELSE Pm25Category(value)

\* C3: both classifiers are the six-step ladder with each boundary in the lower
\* bucket: v <= 12 Baik, 12 < v <= 35.4 Sedang, 35.4 < v <= 55.4 Tidak sehat
\* (sensitif), 55.4 < v <= 150.4 Tidak sehat, 150.4 < v <= 250.4 Sangat tidak sehat,
\* v > 250.4 Berbahaya; a null value gives "Tidak diketahui"; severity never decreases
\* as v grows.
C3_Ladder ==
    cat_out # <<>> =>
        LET label == cat_out[1].label
            v == cat_in.n
        IN  IF cat_in.k = "null" THEN label = "Tidak diketahui"
            ELSE /\ label = "Baik" <=> 10 * v <= 120 * Unit
                 /\ label = "Sedang" <=> (120 * Unit < 10 * v /\ 10 * v <= 354 * Unit)
                 /\ label = "Tidak sehat (sensitif)" <=>
                        (354 * Unit < 10 * v /\ 10 * v <= 554 * Unit)
                 /\ label = "Tidak sehat" <=> (554 * Unit < 10 * v /\ 10 * v <= 1504 * Unit)
                 /\ label = "Sangat tidak sehat" <=>
                        (1504 * Unit < 10 * v /\ 10 * v <= 2504 * Unit)
                 /\ label = "Berbahaya" <=> 2504 * Unit < 10 * v
                 /\ \A u \in CatInputs :
                      (u.k = "num" /\ u.n <= v) =>
                          Severity(Classify(cat_out[1].fn, u)) <= Severity(label)

\* the daily classifier was given exactly 35.4 and answered Sedang
C3_Witness ==
    /\ cat_out # <<>>
    /\ cat_out[1].fn = "transform._categorize_pm25"
    /\ cat_in.k = "num"
    /\ 10 * cat_in.n = 354 * Unit
    /\ cat_out[1].label = "Sedang"

-----------------------------------------------------------------------------
(* Properties of transform.run and transform.run_hourly (Spec) *)

Cent == Unit \div 100

DailyRows == proc_daily.table.rows

\* the last call was a run that returned: DailyRows is the table it wrote and df the
\* hourly table it grouped
RunWrote == result = [op |-> "run", outcome |-> "ok"] /\ proc_daily.exists

\* the rows of the joined hourly table that fall on date d
HoursOn(d) == {i \in 1..Len(df) : df[i]["date"] = d}

DatesOfHourly == {df[i]["date"] : i \in 1..Len(df)}

\* the hourly rows of date d that carry a number in column c
Observed(d, c) == {i \in HoursOn(d) : df[i][c].k = "num"}

RECURSIVE Total(_, _)
Total(I, c) ==
    IF I = {} THEN 0
    ELSE LET i == CHOOSE j \in I : TRUE IN df[i][c].n + Total(I \ {i}, c)

Abs(x) == IF x < 0 THEN 0 - x ELSE x

\* q is num/den rounded to a whole number of hundredths
IsRounded(q, num, den) == q % Cent = 0 /\ 2 * Abs(den * q - num) <= den * Cent

IsMin(x, d, c) == \E i \in Observed(d, c) : df[i][c].n = x /\ \A j \in Observed(d, c) : x <= df[j][c].n
IsMax(x, d, c) == \E i \in Observed(d, c) : df[i][c].n = x /\ \A j \in Observed(d, c) : x >= df[j][c].n

\* the two-hour example of the specification
ExampleHours == <<"2025-01-01T00:00", "2025-01-01T01:00">>
ExampleWeather ==
    Doc(Dict(("time" :> JList(StrList(ExampleHours)))
             @@ ("temperature_2m" :> JList(<<Num(20 * Unit), Num(24 * Unit)>>))
             @@ ("precipitation" :> JList(<<Num(0), Num(15 * Tenth)>>))), NoBlock)
ExampleAir ==
    Doc(Dict(("time" :> JList(StrList(ExampleHours)))
             @@ ("pm2_5" :> JList(<<Num(10 * Unit), Num(14 * Unit)>>))
             @@ ("pm10" :> JList(<<Num(20 * Unit), Num(22 * Unit)>>))), NoBlock)
ExampleDaily ==
    <<[date |-> Date(20250101), temp_min |-> Num(20 * Unit), temp_max |-> Num(24 * Unit),
       total_rain |-> Num(15 * Tenth), pm25_avg |-> Num(12 * Unit),
       pm10_avg |-> Num(21 * Unit), pm25_category |-> Str("Baik")]>>

\* the declared members of an hourly block, whatever else it carries
SameHourly(doc, example) ==
    /\ doc.k = "dict"
    /\ doc.hourly.k = "dict"
    /\ \A key \in DOMAIN example.hourly.m : doc.hourly.m[key] = example.hourly.m[key]

IsExample ==
    /\ raw_weather.exists /\ raw_air.exists
    /\ SameHourly(raw_weather.doc, ExampleWeather)
    /\ SameHourly(raw_air.doc, ExampleAir)
    /\ raw_weather.doc.daily.k = "absent"

\* every date of the hourly table has a daily row, and the example gives its one row
DailyCovers ==
    /\ \A d \in DatesOfHourly : \E i \in 1..Len(DailyRows) : DailyRows[i]["date"] = d
    /\ IsExample => DailyRows = ExampleDaily

\* C2 as stated: the daily row of every date holds the exact minimum, maximum, sum
\* and arithmetic means of that date's hourly values.
C2_ExactAggregates ==
    RunWrote =>
        /\ DailyCovers
        /\ \A d \in DatesOfHourly : \A i \in 1..Len(DailyRows) :
             DailyRows[i]["date"] = d =>
                LET r == DailyRows[i] IN
                /\ IF Observed(d, "temp") = {}
                   THEN r["temp_min"] = Null /\ r["temp_max"] = Null
                   ELSE /\ r["temp_min"].k = "num" /\ IsMin(r["temp_min"].n, d, "temp")
                        /\ r["temp_max"].k = "num" /\ IsMax(r["temp_max"].n, d, "temp")
                /\ r["total_rain"] = Num(Total(Observed(d, "rain"), "rain"))
                /\ \A c \in {"pm25", "pm10"} :
                     LET avg == r[IF c = "pm25" THEN "pm25_avg" ELSE "pm10_avg"]
                         n == Cardinality(Observed(d, c))
                     IN  n > 0 => avg.k = "num" /\ n * avg.n = Total(Observed(d, c), c)

\* C2 (amended): the daily row of every date holds the minimum, the maximum, the sum
\* (null counted as 0) and the means of the non-null hourly values of that date, each
\* rounded to 2 decimals; temp_min and temp_max are null when no temp is present; the
\* two-hour example gives the one row 20, 24, 1.5, 12.0, 21.0, Baik.
C2_RoundedAggregates ==
    RunWrote =>
        /\ DailyCovers
        /\ \A d \in DatesOfHourly : \A i \in 1..Len(DailyRows) :
             DailyRows[i]["date"] = d =>
                LET r == DailyRows[i] IN
                /\ IF Observed(d, "temp") = {}
                   THEN r["temp_min"] = Null /\ r["temp_max"] = Null
                   ELSE /\ r["temp_min"].k = "num" /\ r["temp_max"].k = "num"
                        /\ \E x \in {df[j]["temp"].n : j \in Observed(d, "temp")} :
                             IsMin(x, d, "temp") /\ IsRounded(r["temp_min"].n, x, 1)
                        /\ \E x \in {df[j]["temp"].n : j \in Observed(d, "temp")} :
                             IsMax(x, d, "temp") /\ IsRounded(r["temp_max"].n, x, 1)
                /\ r["total_rain"].k = "num"
                /\ IsRounded(r["total_rain"].n, Total(Observed(d, "rain"), "rain"), 1)
                /\ \A c \in {"pm25", "pm10"} :
                     LET avg == r[IF c = "pm25" THEN "pm25_avg" ELSE "pm10_avg"]
                         n == Cardinality(Observed(d, c))
                     IN  n > 0 => /\ avg.k = "num"
                                  /\ IsRounded(avg.n, Total(Observed(d, c), c), n)

\* run has written the example's table, or a table with a mean that had to be rounded
C2_Witness ==
    /\ RunWrote
    /\ IsExample
    /\ DailyRows = ExampleDaily

\* C4: total_rain is never null in a written daily table, and it is 0 for a date all
\* of whose hourly rain values are null.
C4_TotalRainNeverNull ==
    RunWrote =>
        \A i \in 1..Len(DailyRows) :
            /\ DailyRows[i]["total_rain"].k = "num"
            /\ Observed(DailyRows[i]["date"], "rain") = {} => DailyRows[i]["total_rain"] = Num(0)

\* run has written a row for a date that has hourly rows, none with a rain value
C4_Witness ==
    /\ RunWrote
    /\ \E i \in 1..Len(DailyRows) :
         /\ HoursOn(DailyRows[i]["date"]) # {}
         /\ Observed(DailyRows[i]["date"], "rain") = {}
         /\ DailyRows[i]["total_rain"] = Num(0)

\* C5: a date without any non-null hourly pm25 has pm25_avg null (not 0) and the
\* category "Tidak diketahui" (not "Baik").
C5_NoPm25IsUnknown ==
    RunWrote =>
        \A i \in 1..Len(DailyRows) :
            Observed(DailyRows[i]["date"], "pm25") = {} =>
                /\ DailyRows[i]["pm25_avg"] = Null
                /\ DailyRows[i]["pm25_category"] = Str("Tidak diketahui")

\* run has written a row for a date that has hourly rows, none with a pm25 value,
\* while another column of that date has values
C5_Witness ==
    /\ RunWrote
    /\ \E i \in 1..Len(DailyRows) :
         /\ HoursOn(DailyRows[i]["date"]) # {}
         /\ Observed(DailyRows[i]["date"], "pm25") = {}
         /\ Observed(DailyRows[i]["date"], "pm10") # {}
         /\ DailyRows[i]["pm25_category"] = Str("Tidak diketahui")


\* both raw files are present and hold JSON
BothRawPresent == raw_weather.exists /\ raw_air.exists

\* C6: whenever both raw files exist and parse, run and run_hourly complete and write
\* their CSV, whatever the shape of the content (a missing, null or non-dict "hourly"
\* block included).
C6_NeverRaisesOnPresentData ==
    (BothRawPresent /\ result.op # "none") =>
        /\ result.outcome = "ok"
        /\ result.op = "run" => proc_daily.exists
        /\ result.op = "run_hourly" => proc_hourly.exists

\* C7 as stated: a call fails with the missing-input error exactly when neither raw
\* file exists (not when just one is missing), and then leaves the CSVs alone.
C7_MissingInputOnlyWhenBothAbsent ==
    [][/\ result'.outcome = MissingInput <=> (~raw_weather.exists /\ ~raw_air.exists)
       /\ (~raw_weather.exists /\ ~raw_air.exists) => UNCHANGED <<proc_daily, proc_hourly>>]_vars

\* C7 (amended): run and run_hourly fail with the missing-input error exactly when at
\* least one of the two raw files does not exist (neither, or just one of them), and
\* then no output CSV is created or modified.
C7_MissingInputWhenAnyAbsent ==
    [][/\ result'.outcome = MissingInput <=> (~raw_weather.exists \/ ~raw_air.exists)
       /\ (~raw_weather.exists \/ ~raw_air.exists) => UNCHANGED <<proc_daily, proc_hourly>>]_vars

\* a call failed with the missing-input error while just one raw file was missing and
\* a daily CSV of an earlier run was on disk
C7_Witness ==
    /\ result.outcome = MissingInput
    /\ raw_weather.exists # raw_air.exists
    /\ proc_daily = StaleCsv

\* the air-quality block has a pm2_5 list one shorter than its non-empty time list
Pm25OneShort ==
    /\ BothRawPresent
    /\ raw_air.doc.k = "dict" /\ raw_air.doc.hourly.k = "dict"
    /\ raw_air.doc.hourly.m["time"].k = "list"
    /\ raw_air.doc.hourly.m["pm2_5"].k = "list"
    /\ Len(raw_air.doc.hourly.m["pm2_5"].v) + 1 = Len(raw_air.doc.hourly.m["time"].v)

\* the weather document and its hourly block are objects (or the block is absent)
WeatherIsObject ==
    raw_weather.doc.k = "dict" /\ raw_weather.doc.hourly.k \in {"absent", "dict"}

\* C8 as stated: with pm2_5 one element short, run does not raise and a day's pm25_avg
\* is computed from the valid pm2_5 entries of that day, so it is null only if the day
\* has none.
C8_ShortPm25UsesValidEntries ==
    (Pm25OneShort /\ WeatherIsObject /\ result.op = "run") =>
        /\ result.outcome = "ok"
        /\ \A i \in 1..Len(DailyRows) :
             LET air == raw_air.doc.hourly.m
                 valid == {j \in 1..Len(air["pm2_5"].v) :
                             /\ air["pm2_5"].v[j].k = "num"
                             /\ DtDate(ToDatetime(air["time"].v[j])) = DailyRows[i]["date"]}
             IN  DailyRows[i]["pm25_avg"] = Null <=> valid = {}

\* C8 (amended): with pm2_5 one element short (both raw files present, the documents
\* and hourly blocks being objects), run does not raise and degrades the whole pm2_5
\* field: every day's pm25_avg is null and its category "Tidak diketahui", also for
\* days that have valid pm2_5 entries.
C8_ShortPm25IsAllNull ==
    (Pm25OneShort /\ WeatherIsObject /\ result.op = "run") =>
        /\ result.outcome = "ok"
        /\ proc_daily.exists
        /\ \A i \in 1..Len(DailyRows) :
             /\ DailyRows[i]["pm25_avg"] = Null
             /\ DailyRows[i]["pm25_category"] = Str("Tidak diketahui")

\* run returned for a two-hour air block whose pm2_5 list has one number, and wrote a
\* daily row whose pm10_avg is present
C8_Witness ==
    /\ Pm25OneShort /\ WeatherIsObject /\ RunWrote
    /\ raw_air.doc.hourly.m["pm2_5"].v # <<>>
    /\ raw_air.doc.hourly.m["pm2_5"].v[1].k = "num"
    /\ Len(DailyRows) > 0
    /\ DailyRows[1]["pm10_avg"].k = "num"

\* the parseable timestamps of the "time" list of a raw document
RawTimestamps(file) ==
    IF file.doc.k = "dict" /\ file.doc.hourly.k = "dict" /\ file.doc.hourly.m["time"].k = "list"
    THEN {ToDatetime(t) : t \in Range(file.doc.hourly.m["time"].v)} \ {Null}
    ELSE {}

OneRowPerTimestamp(rows) ==
    /\ \A t \in RawTimestamps(raw_weather) \cup RawTimestamps(raw_air) :
         Cardinality({i \in 1..Len(rows) : rows[i]["time"] = t}) = 1
    /\ \A i \in 1..Len(rows) :
         rows[i]["time"] \in RawTimestamps(raw_weather) \cup RawTimestamps(raw_air)

\* C9: the joined hourly table (of run before grouping, and the one run_hourly writes)
\* has exactly one row per distinct timestamp of the two hourly blocks, also when a
\* source repeats a timestamp.
C9_OneRowPerTimestamp ==
    /\ RunWrote => OneRowPerTimestamp(df)
    /\ (result = [op |-> "run_hourly", outcome |-> "ok"]) =>
           OneRowPerTimestamp(proc_hourly.table.rows)

\* C10: the daily table run writes has exactly one row per date of the hourly table
\* and no other row, also after the sunrise/sunset merge and for every "daily" block.
C10_OneRowPerDate ==
    RunWrote =>
        /\ \A d \in DatesOfHourly :
             Cardinality({i \in 1..Len(DailyRows) : DailyRows[i]["date"] = d}) = 1
        /\ \A i \in 1..Len(DailyRows) : DailyRows[i]["date"] \in DatesOfHourly

-----------------------------------------------------------------------------
(* C11 *)

\* C11: running transform.run again with the raw files unchanged leaves the
\* daily table exactly as the previous run wrote it (same rows, same order,
\* same values) and yields the same hourly table, whatever file the previous
\* run left on disk.
C11_RerunIsIdentical ==
    [][(runs >= 1 /\ result'.op = "run")
          => (proc_daily' = proc_daily /\ df' = df)]_vars

\* a second successful run has written a non-empty daily table
C11_Witness ==
    /\ runs = 2
    /\ RunWrote
    /\ DailyRows # <<>>

-----------------------------------------------------------------------------
(* fetch.py: _request_json and _fetch_weather_air *)

\* the parts of the state the later specifications do not use
TransformIdle ==
    /\ raw_weather = NoFile
    /\ raw_air = NoFile
    /\ NoProcessed
    /\ df = <<>>
    /\ result = Idle
    /\ runs = 0
FrameIdle == frame_in = <<>> /\ frame_out = <<>>
CatIdle == cat_in = Null /\ cat_out = <<>>

\* retries: int = 3
Retries == 3

\* delay = 0.8, in thousandths
FirstDelay == 800

\* what one HTTP attempt does: "ok" (a 2xx answer with a JSON body), "connect"
\* (httpx.ConnectError or a timeout), "status" (raise_for_status raises
\* httpx.HTTPStatusError), "decode" (resp.json() raises a ValueError)
AttemptKinds == {"status", "ok", "connect", "decode"}

\* except httpx.HTTPError, if the handler were a bare "except Exception"
IsHTTPErrorOrAny(kind) == kind # "ok"

\* except httpx.HTTPError: transport errors and HTTPStatusError are subclasses
IsHTTPError(kind) == kind \in {"status", "connect"}

\* delay *= 1.6
Grow(delay) == (delay * 16) \div 10

\* the document of the answer to the attempt-th request of a call
Answer(call, attempt) == [call |-> call, attempt |-> attempt, src |-> "net"]
NoDoc == [call |-> "", attempt |-> 0, src |-> "none"]

\* the loop of _request_json from the attempt-th iteration on; server[i] is what
\* the i-th HTTP attempt does
RECURSIVE RequestLoop(_, _, _, _, _, _)
RequestLoop(call, server, attempt, delay, slept, last_exc) ==
    IF attempt > Retries
    THEN [doc |-> NoDoc, outcome |-> "NetworkError", slept |-> slept,
          cause |-> last_exc, attempts |-> attempt - 1]
    ELSE IF server[attempt] = "ok"
    THEN [doc |-> Answer(call, attempt), outcome |-> "ok", slept |-> slept,
          cause |-> "", attempts |-> attempt]
    ELSE IF IsHTTPError(server[attempt])
    THEN RequestLoop(call, server, attempt + 1, Grow(delay), Append(slept, delay),
                     server[attempt])
    ELSE [doc |-> NoDoc, outcome |-> "ValueError(json)", slept |-> slept,
          cause |-> "", attempts |-> attempt]

\* _request_json(url, params)
RequestJson(call, server) == RequestLoop(call, server, 1, FirstDelay, <<>>, "")

NotCalled == [doc |-> NoDoc, outcome |-> "not called", slept |-> <<>>,
              cause |-> "", attempts |-> 0]

\* _fetch_weather_air: the weather call, then the air-quality call
FetchWeatherAir(weather_server, air_server) ==
    LET w == RequestJson("weather", weather_server)
        a == IF w.outcome = "ok" THEN RequestJson("air", air_server) ELSE NotCalled
    IN  [weather |-> w, air |-> a,
         outcome |-> IF w.outcome # "ok" THEN w.outcome ELSE a.outcome]

Servers == [1..Retries -> AttemptKinds]

InitRequest ==
    /\ req_in \in [weather : Servers, air : Servers]
    /\ req_out = <<>>
    /\ TransformIdle /\ FrameIdle /\ CatIdle
    /\ FetchIdle /\ CliIdle /\ CmpIdle /\ WebIdle
    /\ RecIdle /\ SlugIdle /\ FactIdle /\ IoIdle

CallFetchWeatherAir ==
    /\ req_out = <<>>
    /\ req_out' = <<FetchWeatherAir(req_in.weather, req_in.air)>>
    /\ UNCHANGED <<req_in, transformVars, frameVars, catVars, fetchVars, cliVars,
                   cmpVars, webVars, auxVars>>

RequestSpec == InitRequest /\ [][CallFetchWeatherAir]_vars

-----------------------------------------------------------------------------
(* fetch.py: run, _load_sample, _save_json and the files of data/raw *)

\* if days < 1 or days > 16
MinDays == 1
MaxDays == 16

\* days: int = 7
DefaultDays == 7

\* the check of line 98 if it let 0 through
DaysInvalidBelowZero(days) == days < 0 \/ days > MaxDays

DaysInvalid(days) == days < MinDays \/ days > MaxDays

FileKinds == {"weather", "air"}

\* RAW_DIR / f"{slug}_{kind}.json" and RAW_DIR / f"{slug}_{kind}_{ts}.json":
\* stamp 0 is the fixed "latest" name, ts >= 1 a second of the clock
LatestPath(kind) == <<kind, 0>>
StampedPath(kind, ts) == <<kind, ts>>
RawPaths == FileKinds \X (0..MaxClock)

SampleDoc(kind) == [call |-> kind, attempt |-> 0, src |-> "sample"]

\* _save_json(data, path)
SaveJson(files, data, path) == [files EXCEPT ![path] = data]

\* _load_sample if it read whichever of the two files exists
LoadSampleEither(have) ==
    IF have = {}
    THEN [weather |-> NoDoc, air |-> NoDoc, outcome |-> "FileNotFoundError(sample)"]
    ELSE [weather |-> SampleDoc("weather"), air |-> SampleDoc("air"), outcome |-> "ok"]

\* _load_sample(slug, sample_dir): have is the set of sample files that exist
LoadSample(have) ==
    IF ~("weather" \in have) \/ ~("air" \in have)
    THEN [weather |-> NoDoc, air |-> NoDoc, outcome |-> "FileNotFoundError(sample)"]
    ELSE [weather |-> SampleDoc("weather"), air |-> SampleDoc("air"), outcome |-> "ok"]

\* geocode_city: "ok", "none" (no result: ValueError), "http" (httpx error)
GeoKinds == {"none", "ok", "http"}
GeocodeError(geo) ==
    CASE geo = "ok" -> ""
      [] geo = "none" -> "ValueError(kota tidak ditemukan)"
      [] OTHER -> "HTTPError(geocode)"

InvalidDays == "ValueError(days harus 1-16)"

\* lines 98-127 of run: the bundle, or what is raised, and the calls made
Obtain(days, offline, fallback, have, geo, weather_server, air_server) ==
    LET net == FetchWeatherAir(weather_server, air_server)
        sample == LoadSample(have)
        quiet == [weather |-> NoDoc, air |-> NoDoc, outcome |-> "", net |-> "not called",
                  geocoded |-> 0, weather_attempts |-> 0, air_attempts |-> 0,
                  sample_reads |-> 0]
    IN  IF DaysInvalid(days) THEN [quiet EXCEPT !.outcome = InvalidDays]
        ELSE IF offline
        THEN [quiet EXCEPT !.outcome = sample.outcome, !.weather = sample.weather,
                           !.air = sample.air, !.sample_reads = 1]
        ELSE IF geo # "ok"
        THEN [quiet EXCEPT !.outcome = GeocodeError(geo), !.geocoded = 1]
        ELSE IF net.outcome = "ok"
        THEN [quiet EXCEPT !.outcome = "ok", !.weather = net.weather.doc,
                           !.air = net.air.doc, !.geocoded = 1, !.net = "ok",
                           !.weather_attempts = net.weather.attempts,
                           !.air_attempts = net.air.attempts]
        ELSE IF fallback
        THEN [quiet EXCEPT !.outcome = sample.outcome, !.weather = sample.weather,
                           !.air = sample.air, !.geocoded = 1, !.net = net.outcome,
                           !.weather_attempts = net.weather.attempts,
                           !.air_attempts = net.air.attempts, !.sample_reads = 1]
        ELSE [quiet EXCEPT !.outcome = net.outcome, !.geocoded = 1, !.net = net.outcome,
                           !.weather_attempts = net.weather.attempts,
                           !.air_attempts = net.air.attempts]

\* lines 129-132 of run without the two writes to the fixed names
SaveBundleStampedOnly(files, weather, air, ts) ==
    SaveJson(SaveJson(files,
        weather, StampedPath("weather", ts)),
        air, StampedPath("air", ts))

\* lines 129-132 of run: the four writes, in order
SaveBundle(files, weather, air, ts) ==
    SaveJson(SaveJson(SaveJson(SaveJson(files,
        weather, StampedPath("weather", ts)),
        air, StampedPath("air", ts)),
        weather, LatestPath("weather")),
        air, LatestPath("air"))

NoPaths == {}
\* lines 133-139 of run: the paths of the returned mapping
Returned(ts) ==
    {StampedPath("weather", ts), StampedPath("air", ts),
     LatestPath("weather"), LatestPath("air")}

DayChoices == {MinDays - 2, MinDays - 1, MinDays, DefaultDays, MaxDays, MaxDays + 1}

AllOk == [i \in 1..Retries |-> "ok"]
FetchServers ==
    {AllOk,
     [i \in 1..Retries |-> IF i < Retries THEN "connect" ELSE "status"],
     [i \in 1..Retries |-> IF i < Retries THEN "connect" ELSE "ok"],
     [i \in 1..Retries |-> IF i = 1 THEN "decode" ELSE "ok"]}

InitFetch ==
    /\ fs = [p \in RawPaths |-> NoDoc]
    /\ samples \in SUBSET FileKinds
    /\ now = 1
    /\ fetched = <<>>
    /\ TransformIdle /\ FrameIdle /\ CatIdle
    /\ ReqIdle /\ CliIdle /\ CmpIdle /\ WebIdle
    /\ RecIdle /\ SlugIdle /\ FactIdle /\ IoIdle

\* fetch.run(city, days, timezone, offline=..., fallback=...)
FetchRun ==
    \E days \in DayChoices, offline \in BOOLEAN, fallback \in BOOLEAN :
    \E geo \in IF DaysInvalid(days) \/ offline THEN {"ok"} ELSE GeoKinds :
    \E weather_server \in IF DaysInvalid(days) \/ offline \/ geo # "ok"
                          THEN {AllOk} ELSE FetchServers :
    \E air_server \in IF weather_server = AllOk /\ geo = "ok" /\ ~offline
                         /\ ~DaysInvalid(days)
                      THEN FetchServers ELSE {AllOk} :
    \E got \in {Obtain(days, offline, fallback, samples, geo, weather_server, air_server)} :
        /\ fs' = IF got.outcome = "ok" THEN SaveBundle(fs, got.weather, got.air, now)
                 ELSE fs
        /\ fetched' = <<[weather |-> got.weather, air |-> got.air, outcome |-> got.outcome,
                         days |-> days,
                         offline |-> offline,
                         fallback |-> fallback,
                         net |-> got.net, geocoded |-> got.geocoded,
                         weather_attempts |-> got.weather_attempts, air_attempts |-> got.air_attempts,
                         sample_reads |-> got.sample_reads,
                         ret |-> IF got.outcome = "ok" THEN Returned(now) ELSE NoPaths,
                         stamp |-> now]>>
        /\ UNCHANGED <<samples, now, transformVars, frameVars, catVars, reqVars,
                       cliVars, cmpVars, webVars, auxVars>>

\* a second passes
Tick ==
    /\ now < MaxClock
    /\ now' = now + 1
    /\ UNCHANGED <<fs, samples, fetched, transformVars, frameVars, catVars, reqVars,
                   cliVars, cmpVars, webVars, auxVars>>

NextFetch == FetchRun \/ Tick

FetchSpec == InitFetch /\ [][NextFetch]_vars

-----------------------------------------------------------------------------
(* web.py: fetch_city_data and /compare; compare.py: run *)

\* the names a request can list, and name.strip() of each
RawNames == {"c", "a", "", " b"}
Strip(name) == IF name = " b" THEN "b" ELSE name
CityNames == {"c", "a", "b"}

\* utils.slugify of each name: "city" when nothing is left
Slug(name) == IF Strip(name) = "" THEN "city" ELSE Strip(name)
Slugs == {"c", "a", "city", "b"}

\* what the services answer for one city: geo is "found", "none" (no result),
\* "http" (httpx error, turned into no result) or "decode" (a body that is not
\* JSON); weather is "ok", "status" (non-2xx), "connect" (transport error) or
\* "nodaily" (a document without "daily"); air is "ok" or "fail"; rows is the
\* number of days of the weather document
CityCases ==
    {[rows |-> 0, weather |-> "ok", air |-> "ok", geo |-> "found"],
     [rows |-> 1, weather |-> "status", air |-> "ok", geo |-> "found"],
     [rows |-> 1, weather |-> "ok", air |-> "ok", geo |-> "none"],
     [rows |-> 1, weather |-> "ok", air |-> "ok", geo |-> "decode"],
     [rows |-> 1, weather |-> "ok", air |-> "fail", geo |-> "found"],
     [rows |-> 1, weather |-> "connect", air |-> "ok", geo |-> "found"],
     [rows |-> 1, weather |-> "nodaily", air |-> "fail", geo |-> "found"],
     [rows |-> 2, weather |-> "ok", air |-> "ok", geo |-> "found"]}

\* fetch_city_data(city, days, timezone): the daily frame (its number of rows),
\* an HTTPException with its status, or another exception
FetchCityData(e) ==
    IF e.geo = "decode"
    THEN [rows |-> 0, kind |-> "exception", status |-> 500, detail |-> "ValueError"]
    ELSE IF e.geo # "found"
    THEN [rows |-> 0, kind |-> "http", status |-> 404, detail |-> "Kota tidak ditemukan"]
    ELSE IF e.weather = "status"
    THEN [rows |-> 0, kind |-> "http", status |-> 502, detail |-> "Weather API failed"]
    ELSE IF e.weather = "connect"
    THEN [rows |-> 0, kind |-> "http", status |-> 500, detail |-> "Gagal mengambil data"]
    ELSE IF e.weather = "nodaily"
    THEN [rows |-> 0, kind |-> "exception", status |-> 500, detail |-> "KeyError"]
    ELSE [rows |-> e.rows, kind |-> "ok", status |-> 200, detail |-> ""]

\* the handlers of the loop of compare if only HTTPException were caught
CatchesHTTPExceptionOnly(kind) == kind = "http"

\* except HTTPException ... except Exception
Catches(kind) == kind = "http" \/ kind = "exception"

\* city_list = [c.strip() for c in cities.split(",") if c.strip()]
CityList(parts) ==
    SelectSeq([i \in 1..Len(parts) |-> Strip(parts[i])], LAMBDA c : c # "")

\* if len(city_list) < 2
TooFew(city_list) == Len(city_list) < 2

NoProgress == [results |-> <<>>, failed |-> <<>>, calls |-> <<>>, aborted |-> FALSE]

\* for city in city_list: ... from the i-th city on
RECURSIVE CompareLoop(_, _, _, _)
CompareLoop(city_list, env, i, acc) ==
    IF i > Len(city_list) THEN acc
    ELSE LET city == city_list[i]
             r == FetchCityData(env[city])
             called == [acc EXCEPT !.calls = Append(@, city)]
         IN  IF r.kind = "ok"
             THEN CompareLoop(city_list, env, i + 1,
                     [called EXCEPT !.results =
                         Append(@, [daily |-> r.rows, name |-> city, error |-> ""])])
             ELSE IF Catches(r.kind)
             THEN CompareLoop(city_list, env, i + 1,
                     [called EXCEPT
                        !.results = Append(@, [daily |-> 0, name |-> city,
                                               error |-> r.detail]),
                        !.failed = Append(@, [status |-> r.status, detail |-> r.detail,
                                              city |-> city])])
             ELSE [called EXCEPT !.aborted = TRUE]

RECURSIVE SumRows(_)
SumRows(results) ==
    IF results = <<>> THEN 0 ELSE Head(results).daily + SumRows(Tail(results))

\* sum(1 for r in results if r.get("daily"))
SuccessCount(results) == Len(SelectSeq(results, LAMBDA r : r.daily > 0))

\* GET /compare?cities=...: parts is cities.split(",")
Compare(parts, env) ==
    LET city_list == CityList(parts)
        acc == CompareLoop(city_list, env, 1, NoProgress)
    IN  IF TooFew(city_list)
        THEN [op |-> "compare", status |-> 400, results |-> <<>>, failed |-> <<>>,
              calls |-> <<>>, count |-> 0]
        ELSE IF acc.aborted
        THEN [op |-> "compare", status |-> 500, results |-> <<>>, failed |-> <<>>,
              calls |-> acc.calls, count |-> 0]
        ELSE IF SuccessCount(acc.results) < 2
        THEN [op |-> "compare", status |-> 500, results |-> acc.results,
              failed |-> acc.failed, calls |-> acc.calls, count |-> 0]
        ELSE [op |-> "compare", status |-> 200, results |-> acc.results,
              failed |-> acc.failed, calls |-> acc.calls,
              count |-> SumRows(acc.results)]

\* frames = [_load_daily(c) for c in cities_list]: the files read before the
\* first city without a CSV, if any
RECURSIVE LoadAll(_, _, _, _)
LoadAll(cities_list, have, i, reads) ==
    IF i > Len(cities_list) THEN [outcome |-> "ok", reads |-> reads]
    ELSE IF Slug(cities_list[i]) \in have
    THEN LoadAll(cities_list, have, i + 1, Append(reads, Slug(cities_list[i])))
    ELSE [outcome |-> "FileNotFoundError(CSV tidak ditemukan)", reads |-> reads]

\* compare.run(cities): have is the set of slugs with a daily CSV
CompareRun(cities_list, have) ==
    IF Len(cities_list) < 2
    THEN [outcome |-> "ValueError(Butuh minimal 2 kota)", reads |-> <<>>]
    ELSE LoadAll(cities_list, have, 1, <<>>)

InitCompare ==
    /\ cmp_in \in SeqsUpTo(RawNames, MaxCities)
    /\ cmp_out = <<>>
    /\ TransformIdle /\ FrameIdle /\ CatIdle
    /\ FetchIdle /\ ReqIdle /\ CliIdle /\ WebIdle
    /\ RecIdle /\ SlugIdle /\ FactIdle /\ IoIdle

\* a request to /compare: cities.split(",") has at least one part
CallCompare ==
    /\ cmp_out = <<>>
    /\ cmp_in # <<>>
    /\ \E env \in [CityNames -> CityCases] :
          cmp_out' = <<[call |-> "/compare", env |-> env, out |-> Compare(cmp_in, env)]>>
    /\ UNCHANGED <<cmp_in, transformVars, frameVars, catVars, fetchVars, reqVars,
                   cliVars, webVars, auxVars>>

\* a call of compare.run
CallCompareRun ==
    /\ cmp_out = <<>>
    /\ \E have \in SUBSET Slugs :
          cmp_out' = <<[call |-> "compare.run", have |-> have,
                        out |-> CompareRun(cmp_in, have)]>>
    /\ UNCHANGED <<cmp_in, transformVars, frameVars, catVars, fetchVars, reqVars,
                   cliVars, webVars, auxVars>>

NextCompare == CallCompare \/ CallCompareRun

CompareSpec == InitCompare /\ [][NextCompare]_vars

-----------------------------------------------------------------------------
(* cli.py: the commands fetch, transform, transform-hourly, report and all *)

Commands == {"fetch", "transform", "report", "transform-hourly", "all"}

\* what each stage does when it is called: "ok" or the exception it raises
StageOutcomes ==
    [hourly : {"AttributeError", "ok", "FileNotFoundError(raw)"},
     fetch : {"ok", "NetworkError", "FileNotFoundError(sample)"},
     transform : {"AttributeError", "ok", "FileNotFoundError(raw)"},
     report : {"ok", "FileNotFoundError(csv)"}]

\* the check of --days if it only had the upper limit
CliDaysInvalidAboveOnly(days) == days > MaxDays

\* if days < 1 or days > 16 (lines 32 and 109)
CliDaysInvalid(days) == days < MinDays \/ days > MaxDays

\* the try around transform_hourly_run in all, if it were not there
SwallowedNever(stage) == FALSE

\* try: transform_hourly_run(c) except Exception: pass (lines 124-128)
Swallowed(stage) == stage = "transform-hourly"

\* what a command has done so far: the stages called with their outcomes, the
\* lines written to stdout and to stderr, and the exit code once it has ended
Started == [err |-> <<>>, calls |-> <<>>, out |-> <<>>, exit |-> 0, ended |-> FALSE]

\* _fail(msg): one red line on stderr, then typer.Exit(code=1)
Fail(st, msg) == [st EXCEPT !.err = Append(@, msg), !.exit = 1, !.ended = TRUE]

\* typer.echo(msg) as the last statement of a command
Echo(st, msg) == [st EXCEPT !.out = Append(@, msg), !.ended = TRUE]

\* one call inside the try of a command; prefix is the text of its except branch
Stage(st, name, outcome, prefix) ==
    IF st.ended THEN st
    ELSE LET called == [st EXCEPT !.calls = Append(@, [outcome |-> outcome,
                                                       stage |-> name])]
         IN  IF outcome = "ok" \/ Swallowed(name) THEN called
             ELSE Fail(called, prefix)

\* the --days check before the try of fetch and all
CheckDays(st, days) ==
    IF CliDaysInvalid(days) THEN Fail(st, "Parameter --days harus 1-16.") ELSE st

Finish(st, msg) == IF st.ended THEN st ELSE Echo(st, msg)

\* cli.fetch
CliFetch(days, oc) ==
    Finish(Stage(CheckDays(Started, days), "fetch", oc.fetch, "Gagal fetch"),
           "Selesai ambil data")

\* cli.transform
CliTransform(oc) ==
    Finish(Stage(Started, "transform", oc.transform, "Gagal transform"),
           "Berhasil transform")

\* cli.transform_hourly: the call is not wrapped in a second try here
CliTransformHourly(oc) ==
    LET called == [Started EXCEPT !.calls = <<[outcome |-> oc.hourly,
                                               stage |-> "transform-hourly"]>>]
    IN  IF oc.hourly = "ok" THEN Echo(called, "Berhasil transform hourly")
        ELSE Fail(called, "Gagal transform hourly")

\* cli.report
CliReport(oc) ==
    Finish(Stage(Started, "report", oc.report, "Gagal membuat laporan"),
           "Laporan tersimpan")

\* cli.all
CliAll(days, oc) ==
    Finish(
      Stage(
        Stage(
          Stage(
            Stage(CheckDays(Started, days),
                  "fetch", oc.fetch, "Gagal menjalankan pipeline"),
            "transform", oc.transform, "Gagal menjalankan pipeline"),
          "transform-hourly", oc.hourly, "Gagal menjalankan pipeline"),
        "report", oc.report, "Gagal menjalankan pipeline"),
      "Selesai. Laporan")

InitCli ==
    /\ cli_in \in [days : DayChoices, oc : StageOutcomes, cmd : Commands]
    /\ cli_out = <<>>
    /\ TransformIdle /\ FrameIdle /\ CatIdle
    /\ FetchIdle /\ ReqIdle /\ CmpIdle /\ WebIdle
    /\ RecIdle /\ SlugIdle /\ FactIdle /\ IoIdle

\* one invocation of the command line
Invoke ==
    /\ cli_out = <<>>
    /\ cli_out' = <<CASE cli_in.cmd = "fetch" -> CliFetch(cli_in.days, cli_in.oc)
                      [] cli_in.cmd = "transform" -> CliTransform(cli_in.oc)
                      [] cli_in.cmd = "transform-hourly" -> CliTransformHourly(cli_in.oc)
                      [] cli_in.cmd = "report" -> CliReport(cli_in.oc)
                      [] OTHER -> CliAll(cli_in.days, cli_in.oc)>>
    /\ UNCHANGED <<cli_in, transformVars, frameVars, catVars, fetchVars, reqVars,
                   cmpVars, webVars, auxVars>>

CliSpec == InitCli /\ [][Invoke]_vars

-----------------------------------------------------------------------------
(* The data endpoints of the web application: web.py, /data/daily and /data/hourly *)

\* pd.read_csv(path, parse_dates=[...]): a date written as text comes back as a
\* timestamp at midnight, an empty field as NaN
ReadCell(c, col, parse_dates) ==
    IF col \in parse_dates /\ c.k = "date" THEN [k |-> "ts", n |-> c.n * 100, s |-> ""]
    ELSE c

ReadCsv(table, parse_dates) ==
    [i \in 1..Len(table.rows) |->
        [col \in DOMAIN table.rows[i] |-> ReadCell(table.rows[i][col], col, parse_dates)]]

CsvNotFound == "FileNotFoundError(csv)"

\* web._load_csv
LoadCsv(csv, parse_dates) ==
    IF ~csv.exists THEN [err |-> CsvNotFound, rows |-> <<>>]
    ELSE [err |-> "", rows |-> ReadCsv(csv.table, parse_dates)]

\* if refresh: the CSV is left as it is whatever its state
NeedsTransformOnRefresh(refresh, csv) == refresh

\* if refresh or not daily_path.exists()
NeedsTransform(refresh, csv) == refresh \/ ~csv.exists

\* fetch_mod.run as the handlers call it, by what the network and the sample
\* directory allow
WebFetchKinds == {"ok", "nocity", "nosample"}

WebFetch(kind) ==
    CASE kind = "ok" -> [err |-> "", weather |-> File(SampleWeather(Scenario)),
                         air |-> File(SampleAir(Scenario))]
      [] kind = "nocity" -> [err |-> GeocodeError("none"), weather |-> NoFile, air |-> NoFile]
      [] OTHER -> [err |-> "FileNotFoundError(sample)", weather |-> NoFile, air |-> NoFile]

\* except FileNotFoundError
IsFileNotFound(err) ==
    err \in {MissingInput, "FileNotFoundError(read_text)", "FileNotFoundError(sample)",
             CsvNotFound}

\* HTTPException(404) for a FileNotFoundError, the framework's 500 for any other
\* exception, the dictionary otherwise
Respond(endpoint, refresh, calls, err, rows) ==
    <<[status |-> IF err = "" THEN 200 ELSE IF IsFileNotFound(err) THEN 404 ELSE 500,
       calls |-> calls,
       error |-> err,
       refresh |-> refresh,
       endpoint |-> endpoint,
       serial |-> IF response = <<>> THEN 0 ELSE 1 - response[1].serial,
       body |-> IF err = "" THEN <<[data |-> rows, count |-> Len(rows)]>> ELSE <<>>]>>

\* the calls _ensure_daily / _ensure_hourly make, in order
EnsureCalls(refresh, csv, fetch_err) ==
    (IF refresh THEN <<"fetch">> ELSE <<>>)
    \o (IF NeedsTransform(refresh, csv) /\ fetch_err = "" THEN <<"transform">> ELSE <<>>)

\* GET /data/daily: _ensure_daily, _load_csv, to_dict(orient="records")
DataDaily ==
    \E refresh \in BOOLEAN :
    \E kind \in IF refresh THEN WebFetchKinds ELSE {"ok"} :
    \E fetch \in {WebFetch(kind)} :
    \E weather_file \in {IF refresh /\ fetch.err = "" THEN fetch.weather ELSE raw_weather} :
    \E air_file \in {IF refresh /\ fetch.err = "" THEN fetch.air ELSE raw_air} :
    \E fetch_err \in {IF refresh THEN fetch.err ELSE ""} :
    \E transform \in {NeedsTransform(refresh, proc_daily) /\ fetch_err = ""} :
    \E daily \in {IF transform
                  THEN DailyTable(JoinedHourly(weather_file.doc, air_file.doc), weather_file.doc)
                  ELSE [columns |-> <<>>, err |-> "", rows |-> <<>>]} :
    \E ensure_err \in {IF fetch_err # "" THEN fetch_err
                       ELSE IF transform THEN Raised(weather_file, air_file, daily.err)
                       ELSE ""} :
    \E csv \in {IF transform /\ ensure_err = "" THEN Csv(daily) ELSE proc_daily} :
    \E loaded \in {IF ensure_err = "" THEN LoadCsv(csv, {"date"})
                   ELSE [err |-> ensure_err, rows |-> <<>>]} :
        /\ response' = Respond("/data/daily", refresh,
                               EnsureCalls(refresh, proc_daily, fetch_err)
                                   \o (IF ensure_err = "" THEN <<"load">> ELSE <<>>),
                               loaded.err, loaded.rows)
        /\ raw_weather' = weather_file
        /\ raw_air' = air_file
        /\ proc_daily' = csv
        /\ UNCHANGED <<proc_hourly, df, result, runs, frameVars, catVars, stageVars>>

\* GET /data/hourly: _ensure_hourly, _load_csv, to_dict(orient="records")
DataHourly ==
    \E refresh \in BOOLEAN :
    \E kind \in IF refresh THEN WebFetchKinds ELSE {"ok"} :
    \E fetch \in {WebFetch(kind)} :
    \E weather_file \in {IF refresh /\ fetch.err = "" THEN fetch.weather ELSE raw_weather} :
    \E air_file \in {IF refresh /\ fetch.err = "" THEN fetch.air ELSE raw_air} :
    \E fetch_err \in {IF refresh THEN fetch.err ELSE ""} :
    \E transform \in {NeedsTransform(refresh, proc_hourly) /\ fetch_err = ""} :
    \E hourly \in {IF transform
                   THEN JoinedHourlyAll(weather_file.doc, air_file.doc)
                   ELSE [columns |-> <<>>, err |-> "", rows |-> <<>>]} :
    \E ensure_err \in {IF fetch_err # "" THEN fetch_err
                       ELSE IF transform THEN Raised(weather_file, air_file, hourly.err)
                       ELSE ""} :
    \E csv \in {IF transform /\ ensure_err = "" THEN Csv(hourly) ELSE proc_hourly} :
    \E loaded \in {IF ensure_err = "" THEN LoadCsv(csv, {"date", "time"})
                   ELSE [err |-> ensure_err, rows |-> <<>>]} :
        /\ response' = Respond("/data/hourly", refresh,
                               EnsureCalls(refresh, proc_hourly, fetch_err)
                                   \o (IF ensure_err = "" THEN <<"load">> ELSE <<>>),
                               loaded.err, loaded.rows)
        /\ raw_weather' = weather_file
        /\ raw_air' = air_file
        /\ proc_hourly' = csv
        /\ UNCHANGED <<proc_daily, df, result, runs, frameVars, catVars, stageVars>>

\* the CSV files an earlier run left behind
EarlierDaily ==
    Csv(DailyTable(JoinedHourly(SampleWeather(Scenario), SampleAir(Scenario)),
                   SampleWeather(Scenario)))

EarlierHourly == Csv(JoinedHourlyAll(SampleWeather(Scenario), SampleAir(Scenario)))

InitWeb ==
    /\ \E ws \in SourceStates, as \in SourceStates :
        /\ raw_weather = SourceFile(SampleWeather(Scenario), ws)
        /\ raw_air = SourceFile(SampleAir(Scenario), as)
    /\ proc_daily \in {NoCsv, StaleCsv, EarlierDaily}
    /\ proc_hourly \in {NoCsv, EarlierHourly}
    /\ df = <<>>
    /\ result = Idle
    /\ runs = 0
    /\ FrameIdle /\ CatIdle
    /\ FetchIdle /\ ReqIdle /\ CliIdle /\ CmpIdle /\ WebIdle
    /\ RecIdle /\ SlugIdle /\ FactIdle /\ IoIdle

NextWeb == DataDaily \/ DataHourly

WebSpec == InitWeb /\ [][NextWeb]_vars

-----------------------------------------------------------------------------
(* C12 - C15 *)

LastFetch == fetched[1]

\* C12: fetch.run checks the day count before anything else: a call with days
\* below 1 or above 16 raises the invalid-range error having made no geocoding
\* call, no forecast request and no sample read and having left every raw file
\* as it was; a call with days in 1..16 never raises that error.
C12_DaysValidatedFirst ==
    [][fetched' # <<>> =>
         /\ (fetched'[1].days < 1 \/ fetched'[1].days > 16) =>
               /\ fetched'[1].outcome = "ValueError(days harus 1-16)"
               /\ fetched'[1].geocoded = 0
               /\ fetched'[1].weather_attempts = 0
               /\ fetched'[1].air_attempts = 0
               /\ fetched'[1].sample_reads = 0
               /\ fs' = fs
         /\ (fetched'[1].days >= 1 /\ fetched'[1].days <= 16) =>
               fetched'[1].outcome # "ValueError(days harus 1-16)"]_vars

\* days = 17 has been rejected after an earlier call had written raw files
C12_Witness ==
    /\ fetched # <<>>
    /\ LastFetch.days = 17
    /\ LastFetch.outcome = "ValueError(days harus 1-16)"
    /\ fs[LatestPath("weather")] # NoDoc

\* the waits of a call, in thousandths: 0.8, 0.8 * 1.6, 0.8 * 1.6 * 1.6
Waits == <<800, 1280, 2048>>

TransportFailure(kind) == kind = "connect" \/ kind = "status"
AllFailBefore(server, i) == \A j \in 1..(i - 1) : TransportFailure(server[j])

\* the retry protocol for one call, given what each attempt would do
FollowsProtocol(call, r, server) ==
    /\ r.attempts >= 1 /\ r.attempts <= 3
    /\ AllFailBefore(server, r.attempts)
    /\ \A i \in 1..3 :
          (server[i] = "ok" /\ AllFailBefore(server, i)) =>
              /\ r.outcome = "ok"
              /\ r.attempts = i
              /\ r.doc = [call |-> call, attempt |-> i, src |-> "net"]
    /\ r.slept = SubSeq(Waits, 1, IF r.outcome = "ok" THEN r.attempts - 1
                                  ELSE IF TransportFailure(server[r.attempts])
                                       THEN r.attempts ELSE r.attempts - 1)
    /\ r.outcome = "NetworkError" <=> AllFailBefore(server, 4)
    /\ r.outcome = "NetworkError" => r.cause = server[3]

\* C13: each of the two calls makes at most 3 attempts, returns the answer of
\* its first successful attempt without a further attempt, retries only after
\* an httpx.HTTPError with waits 0.8, 1.28, 2.048, and raises NetworkError with
\* the last failure exactly when all 3 attempts fail; the air-quality call
\* follows the protocol whatever the weather call needed.
C13_RetryProtocol ==
    req_out # <<>> =>
        /\ FollowsProtocol("weather", req_out[1].weather, req_in.weather)
        /\ IF req_out[1].weather.outcome = "ok"
           THEN FollowsProtocol("air", req_out[1].air, req_in.air)
           ELSE req_out[1].air.attempts = 0

\* the weather call succeeded at its third attempt and the air-quality call
\* then failed three times
C13_Witness ==
    /\ req_out # <<>>
    /\ req_out[1].weather.outcome = "ok"
    /\ req_out[1].weather.attempts = 3
    /\ req_out[1].air.outcome = "NetworkError"
    /\ req_out[1].air.attempts = 3

NetworkFailed(f) == ~f.offline /\ f.net # "ok" /\ f.net # "not called"

\* C14: when the network fetch of an online call fails, the call succeeds with
\* the sample bundle if fallback is on and both sample files exist, and
\* otherwise raises the error of the failed fetch; with fallback off it always
\* raises that error.
C14_FallbackOrNetworkError ==
    (fetched # <<>> /\ NetworkFailed(LastFetch)) =>
        IF LastFetch.fallback /\ samples = {"weather", "air"}
        THEN /\ LastFetch.outcome = "ok"
             /\ fs[LatestPath("weather")].src = "sample"
             /\ fs[LatestPath("air")].src = "sample"
        ELSE LastFetch.outcome = LastFetch.net

\* C15: a call that returns has written, for weather and for air quality, the
\* bundle it obtained to the file stamped with the second of the call and to
\* the fixed "latest" file, and returns these four paths; a call that raises
\* leaves every raw file as it was.
C15_PersistedTwice ==
    [][fetched' # <<>> =>
         IF fetched'[1].outcome = "ok"
         THEN /\ fs'[<<"weather", fetched'[1].stamp>>] = fetched'[1].weather
              /\ fs'[<<"air", fetched'[1].stamp>>] = fetched'[1].air
              /\ fs'[<<"weather", 0>>] = fs'[<<"weather", fetched'[1].stamp>>]
              /\ fs'[<<"air", 0>>] = fs'[<<"air", fetched'[1].stamp>>]
              /\ fetched'[1].weather.src # "none"
              /\ fetched'[1].air.src # "none"
              /\ fetched'[1].stamp >= 1
              /\ fetched'[1].ret = {<<"weather", fetched'[1].stamp>>,
                                    <<"air", fetched'[1].stamp>>,
                                    <<"weather", 0>>, <<"air", 0>>}
         ELSE fs' = fs]_vars

\* a second successful call, a second later, has replaced "latest": the first
\* call's stamped files still hold the network bundle, "latest" the sample
C15_Witness ==
    /\ fetched # <<>>
    /\ LastFetch.outcome = "ok"
    /\ LastFetch.stamp = 2
    /\ fs[<<"weather", 1>>].src = "net"
    /\ fs[<<"weather", 2>>].src = "sample"
    /\ fs[<<"weather", 0>>].src = "sample"

-----------------------------------------------------------------------------
(* C16, C17 *)

LastCompare == cmp_out[1]

\* the names of the request that are not empty, trimmed, in the order given
Listed == SelectSeq([i \in 1..Len(cmp_in) |-> IF cmp_in[i] = " b" THEN "b" ELSE cmp_in[i]],
                    LAMBDA c : c # "")

\* the city's geocoding or weather request fails, or its document is unusable
Fails(env, city) == env[city].geo # "found" \/ env[city].weather # "ok"

RECURSIVE FailedOf(_, _)
FailedOf(env, cities) ==
    IF cities = <<>> THEN <<>>
    ELSE IF Fails(env, Head(cities)) THEN <<Head(cities)>> \o FailedOf(env, Tail(cities))
    ELSE FailedOf(env, Tail(cities))

\* every listed city is fetched in turn, whatever happened to the cities before
\* it, and each failure is recorded next to the successes
EachCityProcessed(c) ==
    /\ c.out.calls = Listed
    /\ Len(c.out.results) = Len(Listed)
    /\ \A i \in 1..Len(Listed) :
          /\ c.out.results[i].name = Listed[i]
          /\ Fails(c.env, Listed[i]) <=> c.out.results[i].error # ""
          /\ Fails(c.env, Listed[i]) => c.out.results[i].daily = 0
          /\ ~Fails(c.env, Listed[i]) => c.out.results[i].daily = c.env[Listed[i]].rows
    /\ [i \in 1..Len(c.out.failed) |-> c.out.failed[i].city] = FailedOf(c.env, Listed)

Fetched(c) == {i \in 1..Len(Listed) : ~Fails(c.env, Listed[i])}
WithRows(c) == {i \in 1..Len(Listed) : ~Fails(c.env, Listed[i]) /\ c.env[Listed[i]].rows > 0}

NonEmptyNames == {i \in 1..Len(cmp_in) : cmp_in[i] # ""}

\* C17 as stated: with fewer than two non-empty names, /compare answers 400
\* having fetched nothing and compare.run fails having read no CSV.
C17_RejectedBeforeAnyCall ==
    (cmp_out # <<>> /\ Cardinality(NonEmptyNames) < 2) =>
        IF LastCompare.call = "/compare"
        THEN LastCompare.out.status = 400 /\ LastCompare.out.calls = <<>>
        ELSE LastCompare.out.outcome # "ok" /\ LastCompare.out.reads = <<>>

-----------------------------------------------------------------------------
(* C18, C19 *)

Cli == cli_out[1]

StagesCalled == [i \in 1..Len(Cli.calls) |-> Cli.calls[i].stage]
Raising == {i \in 1..Len(Cli.calls) : Cli.calls[i].outcome # "ok"}
DaysOutOfRange == cli_in.days < 1 \/ cli_in.days > 16
TakesDays == cli_in.cmd = "fetch" \/ cli_in.cmd = "all"

\* C18 as stated: whenever a stage called by a command raised, the command
\* ended with exactly one error line and exit code 1; and fetch / all with
\* --days outside [1,16] exit with code 1 without calling the fetch step.
C18_EveryExceptionExitsOne ==
    cli_out # <<>> =>
        /\ Raising # {} => (Cli.exit = 1 /\ Len(Cli.err) = 1)
        /\ (TakesDays /\ DaysOutOfRange) => (Cli.exit = 1 /\ Cli.calls = <<>>)

\* C18: whenever a stage raised, other than the hourly transform inside `all`
\* (whose exception is dropped without a message), the command ended with
\* exactly one error line and exit code 1; no command writes more than one
\* error line or exits with another code than 0 or 1; and fetch / all with
\* --days outside [1,16] write one error line and exit with code 1 without
\* calling any stage.
C18_ExceptionsExitOneButHourlyInAll ==
    cli_out # <<>> =>
        /\ \A i \in Raising :
              ~(cli_in.cmd = "all" /\ Cli.calls[i].stage = "transform-hourly")
                 => (Cli.exit = 1 /\ Len(Cli.err) = 1)
        /\ Len(Cli.err) <= 1
        /\ Cli.exit = IF Cli.err = <<>> THEN 0 ELSE 1
        /\ Cli.ended
        /\ (TakesDays /\ DaysOutOfRange) =>
              (Cli.exit = 1 /\ Len(Cli.err) = 1 /\ Cli.calls = <<>>)

\* `all` ended with one error line and exit code 1 because the daily transform
\* raised after a successful fetch
C18_Witness ==
    /\ cli_out # <<>>
    /\ cli_in.cmd = "all"
    /\ Len(Cli.calls) = 2
    /\ Cli.calls[2].outcome = "AttributeError"
    /\ Cli.exit = 1
    /\ Len(Cli.err) = 1

Order == <<"fetch", "transform", "transform-hourly", "report">>

\* C19: `all` calls the stages in the order fetch, daily transform, hourly
\* transform, report; each stage is called only after fetch and the daily
\* transform before it succeeded; a failure of the hourly transform neither
\* keeps the report from being produced nor changes the exit code; a failure of
\* fetch, daily transform or report ends the command with exit code 1 and no
\* later stage is called.
C19_StagesInOrder ==
    (cli_out # <<>> /\ cli_in.cmd = "all") =>
        /\ StagesCalled = SubSeq(Order, 1, Len(Cli.calls))
        /\ \A i \in 1..Len(Cli.calls) : \A j \in 1..(i - 1) :
              Cli.calls[j].stage # "transform-hourly" => Cli.calls[j].outcome = "ok"
        /\ \A i \in Raising :
              IF Cli.calls[i].stage = "transform-hourly"
              THEN /\ Len(Cli.calls) = 4
                   /\ Cli.exit = IF Cli.calls[4].outcome = "ok" THEN 0 ELSE 1
              ELSE Cli.exit = 1 /\ i = Len(Cli.calls)
        /\ (Len(Cli.calls) = 4 /\ Cli.calls[4].outcome = "ok") => Cli.exit = 0
        /\ ~DaysOutOfRange => Len(Cli.calls) >= 1

\* the hourly transform raised, the report was produced and the exit code is 0
C19_Witness ==
    /\ cli_out # <<>>
    /\ cli_in.cmd = "all"
    /\ Len(Cli.calls) = 4
    /\ Cli.calls[3].outcome = "AttributeError"
    /\ Cli.calls[4].outcome = "ok"
    /\ Cli.exit = 0

-----------------------------------------------------------------------------
(* C20 *)

\* the response of the request a step serves, and the CSV that request is about
\* as it was when the request arrived
Served == response' # response
Reply == response'[1]
CsvBefore == IF Reply.endpoint = "/data/daily" THEN proc_daily ELSE proc_hourly
CsvAfter == IF Reply.endpoint = "/data/daily" THEN proc_daily' ELSE proc_hourly'

\* the body is {count, data} with count the number of records, one per row of
\* the CSV
BodyOf(csv) ==
    /\ Reply.status = 200
    /\ Len(Reply.body) = 1
    /\ Reply.body[1].count = Len(Reply.body[1].data)
    /\ Len(Reply.body[1].data) = Len(csv.table.rows)

\* C20 as stated: GET /data/daily and GET /data/hourly with refresh=false
\* respond 404 whenever the processed CSV of the city is absent; with the CSV
\* present they respond with {city, count, data} where count is the number of
\* records in data.
C20_AbsentCsvIs404 ==
    [][(Served /\ ~Reply.refresh) =>
          IF ~CsvBefore.exists THEN Reply.status = 404 ELSE BodyOf(CsvBefore)]_vars

\* C20: GET /data/daily and GET /data/hourly with refresh=false and the
\* processed CSV present respond with {city, count, data} read from that CSV,
\* count being the number of records in data, and run no transform. With the
\* CSV absent they run the transform first: the response is 404 exactly when a
\* raw JSON file of the city is missing; with both raw files on disk it is the
\* records of the CSV the transform has just written, or 500 when the transform
\* raises and writes nothing.
C20_AbsentCsvTransformsFirst ==
    [][(Served /\ ~Reply.refresh) =>
          IF CsvBefore.exists
          THEN /\ BodyOf(CsvBefore)
               /\ Reply.calls = <<"load">>
               /\ UNCHANGED <<raw_weather, raw_air, proc_daily, proc_hourly>>
          ELSE /\ UNCHANGED <<raw_weather, raw_air>>
               /\ Reply.status = 404 <=> RawMissing(raw_weather, raw_air)
               /\ Reply.status = 404 => Reply.calls = <<"transform">>
               /\ Reply.status \in {200, 404, 500}
               /\ Reply.status = 200 =>
                     /\ CsvAfter.exists
                     /\ BodyOf(CsvAfter)
                     /\ Reply.calls = <<"transform", "load">>
               /\ Reply.status # 200 => ~CsvAfter.exists]_vars

\* a request with refresh=false found no CSV, transformed the raw files and
\* answered with the records
C20_Witness ==
    /\ response # <<>>
    /\ ~response[1].refresh
    /\ response[1].calls = <<"transform", "load">>
    /\ response[1].status = 200
    /\ response[1].body[1].count > 0

-----------------------------------------------------------------------------
(* C22 *)

\* C22: in offline mode fetch.run makes no geocoding call and no forecast
\* request; with a valid day count and both sample files of the city present
\* it returns, having written the sample bundle to the stamped and to the
\* "latest" files; with a sample file missing it raises FileNotFoundError and
\* leaves every raw file as it was.
C22_OfflineUsesSamplesOnly ==
    [][(fetched' # <<>> /\ fetched'[1].offline) =>
         /\ fetched'[1].geocoded = 0
         /\ fetched'[1].net = "not called"
         /\ fetched'[1].weather_attempts = 0
         /\ fetched'[1].air_attempts = 0
         /\ (fetched'[1].days >= 1 /\ fetched'[1].days <= 16) =>
               IF samples = {"weather", "air"}
               THEN /\ fetched'[1].outcome = "ok"
                    /\ fetched'[1].weather = [call |-> "weather", attempt |-> 0, src |-> "sample"]
                    /\ fetched'[1].air = [call |-> "air", attempt |-> 0, src |-> "sample"]
                    /\ \A ts \in {0, fetched'[1].stamp} :
                          /\ fs'[<<"weather", ts>>] = fetched'[1].weather
                          /\ fs'[<<"air", ts>>] = fetched'[1].air
                    /\ \A p \in DOMAIN fs : p[2] \notin {0, fetched'[1].stamp} => fs'[p] = fs[p]
               ELSE /\ fetched'[1].outcome = "FileNotFoundError(sample)"
                    /\ fs' = fs]_vars

\* an offline call with only the weather sample on disk has raised after an
\* earlier call had stored a bundle from the network
C22_Witness ==
    /\ fetched # <<>>
    /\ LastFetch.offline
    /\ samples = {"weather"}
    /\ LastFetch.outcome = "FileNotFoundError(sample)"
    /\ LastFetch.geocoded = 0
    /\ fs[<<"weather", 0>>].src = "net"

-----------------------------------------------------------------------------
(* C23 *)

\* the aggregate of the hourly table as it is before the merge, and the written
\* table cut down to the aggregate's columns
AggregateRows == GroupByDate(df)
WrittenAggregate ==
    [i \in 1..Len(DailyRows) |-> [c \in Range(DailyColumns) |-> DailyRows[i][c]]]

MetadataMerged == "sunrise" \in Range(proc_daily.table.columns)

\* the "daily" block of the weather document, its "time" array and the dates in it
MetaBlock == raw_weather.doc.daily.m
MetaTimes == TimesOf(MetaBlock)
MetaDates == {DtDate(ToDatetime(MetaTimes[i])) : i \in 1..Len(MetaTimes)}

Ragged(key) ==
    LET vals == Get(MetaBlock, key, JNull)
    IN  vals.k = "list" /\ Len(vals.v) # Len(MetaTimes)

\* C23: the daily metadata merge of transform.run only adds the columns sunrise
\* and sunset: the aggregate rows, their order and their aggregate values are
\* as before the merge (so a date that occurs only in the "daily" block adds
\* no row), a date without an entry in the "daily" block has null sunrise and
\* sunset, and a sunrise or sunset array whose length differs from the "time"
\* array gives null in every row instead of raising.
C23_MergeOnlyAddsSunriseSunset ==
    RunWrote =>
        /\ WrittenAggregate = AggregateRows
        /\ MetadataMerged =>
              \A i \in 1..Len(DailyRows) :
                  /\ DailyRows[i]["date"] \notin MetaDates =>
                        IsNa(DailyRows[i]["sunrise"]) /\ IsNa(DailyRows[i]["sunset"])
                  /\ Ragged("sunrise") => IsNa(DailyRows[i]["sunrise"])
                  /\ Ragged("sunset") => IsNa(DailyRows[i]["sunset"])

-----------------------------------------------------------------------------
(* C29 *)

\* C29: for every value, null included and each threshold included, the label
\* transform._categorize_pm25 returns is the label report._pm25_category
\* returns: whichever of the two was called, the other one gives the same label
\* for the same input.
C29_ClassifiersAgree ==
    /\ CategorizePm25(cat_in) = Pm25Category(cat_in)
    /\ cat_out # <<>> =>
          cat_out[1].label =
              IF cat_out[1].fn = "transform._categorize_pm25"
              THEN Pm25Category(cat_in) ELSE CategorizePm25(cat_in)

\* the report classifier was given exactly 55.4 and answered like the daily one
C29_Witness ==
    /\ cat_out # <<>>
    /\ cat_out[1].fn = "report._pm25_category"
    /\ cat_in.k = "num"
    /\ 10 * cat_in.n = 554 * Unit
    /\ cat_out[1].label = "Tidak sehat (sensitif)"
    /\ CategorizePm25(cat_in) = "Tidak sehat (sensitif)"

-----------------------------------------------------------------------------
(* C28 *)

InFailed(c, name) == \E j \in 1..Len(c.out.failed) : c.out.failed[j].city = name

\* C28: in the response of /compare to a request with at least two city names,
\* the per-city results list the requested cities one entry each in request
\* order, a city is in the failure list exactly when its result carries an
\* error, and every city whose daily list is empty is in the failure list: no
\* city is reported with neither data nor a recorded failure.
C28_EveryCityAccounted ==
    (cmp_out # <<>> /\ LastCompare.call = "/compare" /\ Len(Listed) >= 2) =>
        /\ [i \in 1..Len(LastCompare.out.results) |-> LastCompare.out.results[i].name] = Listed
        /\ \A i \in 1..Len(LastCompare.out.results) :
              /\ InFailed(LastCompare, LastCompare.out.results[i].name)
                    <=> LastCompare.out.results[i].error # ""
              /\ LastCompare.out.results[i].daily = 0
                    => InFailed(LastCompare, LastCompare.out.results[i].name)

-----------------------------------------------------------------------------
(* report._simple_recommendation on its own: values around every threshold *)

\* None, as opposed to NaN (Null)
NoneCell == [k |-> "none", n |-> 0, s |-> ""]

\* x > t for a float or None-checked argument: False for NaN
Above(x, t) == x.k = "num" /\ x.n > t

\* if max_temp is not None and max_temp > 33
HeatLimit == 33 * Unit

\* if rainy_days >= 3
RainyDaysLimit == 3

MaskTip == "Kualitas udara buruk. Gunakan masker saat di luar, batasi aktivitas outdoor."
SensitiveTip == "Kualitas udara sedang-buruk bagi kelompok sensitif. Kurangi paparan di luar."
HeatTip == "Cuaca panas. Hindari aktivitas berat siang hari dan perbanyak minum."
RainTip == "Beberapa hari hujan. Siapkan jas hujan/penutup barang jika beraktivitas di luar."
SafeText == "Kondisi relatif aman. Tetap pantau perubahan cuaca harian."

\* " ".join(tips) or default: the text as the sequence of its sentences
JoinOr(tips, default) == IF tips = <<>> THEN <<default>> ELSE tips

\* _simple_recommendation with "if" in place of "elif" at line 35
SimpleRecommendationNoElif(max_temp, pm25_avg, rainy_days) ==
    LET air == IF pm25_avg.k = "none" THEN <<>>
               ELSE (IF Above(pm25_avg, Sensitive) THEN <<MaskTip>> ELSE <<>>)
                    \o (IF Above(pm25_avg, Moderate) THEN <<SensitiveTip>> ELSE <<>>)
        heat == IF max_temp.k # "none" /\ Above(max_temp, HeatLimit) THEN <<HeatTip>> ELSE <<>>
        rain == IF rainy_days >= RainyDaysLimit THEN <<RainTip>> ELSE <<>>
    IN  JoinOr(air \o heat \o rain, SafeText)

\* report._simple_recommendation(max_temp, pm25_avg, rainy_days)
SimpleRecommendation(max_temp, pm25_avg, rainy_days) ==
    LET air == IF pm25_avg.k = "none" THEN <<>>
               ELSE IF Above(pm25_avg, Sensitive) THEN <<MaskTip>>
               ELSE IF Above(pm25_avg, Moderate) THEN <<SensitiveTip>>
               ELSE <<>>
        heat == IF max_temp.k # "none" /\ Above(max_temp, HeatLimit) THEN <<HeatTip>> ELSE <<>>
        rain == IF rainy_days >= RainyDaysLimit THEN <<RainTip>> ELSE <<>>
    IN  JoinOr(air \o heat \o rain, SafeText)

Around(t) == {Num(t + d) : d \in (0 - MaxDelta)..MaxDelta}

TempInputs == {NoneCell, Null} \cup Around(HeatLimit)
Pm25Inputs == {NoneCell, Null, Num(0)} \cup Around(Moderate) \cup Around(Sensitive)
RainyInputs == 0..(RainyDaysLimit + 1)

InitRec ==
    /\ rec_in \in [pm25_avg : Pm25Inputs, max_temp : TempInputs, rainy_days : RainyInputs]
    /\ rec_out = <<>>
    /\ TransformIdle /\ FrameIdle /\ CatIdle
    /\ FetchIdle /\ ReqIdle /\ CliIdle /\ CmpIdle /\ WebIdle
    /\ SlugIdle /\ FactIdle /\ IoIdle

CallSimpleRecommendation ==
    /\ rec_out = <<>>
    /\ rec_out' = <<SimpleRecommendation(rec_in.max_temp, rec_in.pm25_avg, rec_in.rainy_days)>>
    /\ UNCHANGED <<rec_in, transformVars, frameVars, catVars, fetchVars, reqVars, cliVars,
                   cmpVars, webVars, slugVars, factVars, ioVars>>

RecSpec == InitRec /\ [][CallSimpleRecommendation]_vars

-----------------------------------------------------------------------------
(* C24 *)

Tips == rec_out[1]
Advised(tip) == \E i \in 1..Len(Tips) : Tips[i] = tip

\* C24: for every max temperature, mean PM2.5 (None and NaN included) and
\* rainy-day count, the mask advisory appears iff the mean PM2.5 is above 55.4,
\* the sensitive-group advisory iff it is above 35.4 and at most 55.4, the heat
\* advisory iff the max temperature is above 33, the rain-gear advisory iff the
\* rainy-day count is at least 3; the advisories that fire appear once each in
\* this order, and the text is the "relatively safe" message iff none fires.
C24_RecommendationRules ==
    rec_out # <<>> =>
        LET pm == rec_in.pm25_avg
            temp == rec_in.max_temp
            mask == pm.k = "num" /\ 10 * pm.n > 554 * Unit
            sensitive == pm.k = "num" /\ 10 * pm.n > 354 * Unit /\ 10 * pm.n <= 554 * Unit
            heat == temp.k = "num" /\ temp.n > 33 * Unit
            rain == rec_in.rainy_days >= 3
        IN  /\ Advised(MaskTip) <=> mask
            /\ Advised(SensitiveTip) <=> sensitive
            /\ ~(Advised(MaskTip) /\ Advised(SensitiveTip))
            /\ Advised(HeatTip) <=> heat
            /\ Advised(RainTip) <=> rain
            /\ Advised(SafeText) <=> ~(mask \/ sensitive \/ heat \/ rain)
            /\ Tips = SelectSeq(<<MaskTip, SensitiveTip, HeatTip, RainTip, SafeText>>, Advised)

\* the mask, heat and rain advisories fired together just above their limits
C24_Witness ==
    /\ rec_out # <<>>
    /\ rec_in.pm25_avg = Num(Sensitive + 1)
    /\ rec_in.max_temp = Num(HeatLimit + 1)
    /\ rec_in.rainy_days = 3
    /\ Tips = <<MaskTip, HeatTip, RainTip>>

-----------------------------------------------------------------------------
(* utils.slugify: a text is a sequence of characters *)

\* longest text given to slugify
MaxText == 3

\* the characters of the model: ASCII letters, a digit, separators, the
\* precomposed U+00E9 ("e_acute"), U+00F8 ("o_slash", which has no
\* decomposition) and the combining acute accent U+0301 ("acute")
LowerLetters == {"t", "c", "i", "y", "a", "e", "b"}
UpperLetters == {"A", "B"}
DigitChars == {"1"}
TextChars == {"/", "-", "1", "a", "B", " ", "e_acute", "o_slash", "acute"}

\* unicodedata.normalize("NFKD", c)
Nfkd(c) == IF c = "e_acute" THEN <<"e", "acute">> ELSE <<c>>

\* unicodedata.combining(c) != 0
Combining(c) == c = "acute"

\* [a-zA-Z0-9]
AsciiAlnum(c) == c \in LowerLetters \cup UpperLetters \cup DigitChars

\* str.lower on one character
LowerChar(c) == CASE c = "A" -> "a" [] c = "B" -> "b" [] OTHER -> c

RECURSIVE SkipRun(_)
SkipRun(s) == IF s # <<>> /\ ~AsciiAlnum(Head(s)) THEN SkipRun(Tail(s)) ELSE s

\* re.sub(r"[^a-zA-Z0-9]+", "-", s)
RECURSIVE SubRuns(_)
SubRuns(s) ==
    IF s = <<>> THEN <<>>
    ELSE IF AsciiAlnum(Head(s)) THEN <<Head(s)>> \o SubRuns(Tail(s))
    ELSE <<"-">> \o SubRuns(SkipRun(Tail(s)))

RECURSIVE LStrip(_)
LStrip(s) == IF s # <<>> /\ Head(s) = "-" THEN LStrip(Tail(s)) ELSE s

RECURSIVE RStrip(_)
RStrip(s) == IF s # <<>> /\ s[Len(s)] = "-" THEN RStrip(SubSeq(s, 1, Len(s) - 1)) ELSE s

\* s.strip("-")
StripHyphens(s) == RStrip(LStrip(s))

CityKey == <<"c", "i", "t", "y">>

\* slugify without .strip("-")
SlugifyNoStrip(text) ==
    LET text_norm == Concat([i \in 1..Len(text) |-> Nfkd(text[i])])
        text_no_accents == SelectSeq(text_norm, LAMBDA c : ~Combining(c))
        subbed == SubRuns(text_no_accents)
        slug == [i \in 1..Len(subbed) |-> LowerChar(subbed[i])]
    IN  IF slug = <<>> THEN CityKey ELSE slug

\* utils.slugify(text)
Slugify(text) ==
    LET text_norm == Concat([i \in 1..Len(text) |-> Nfkd(text[i])])
        text_no_accents == SelectSeq(text_norm, LAMBDA c : ~Combining(c))
        stripped == StripHyphens(SubRuns(text_no_accents))
        slug == [i \in 1..Len(stripped) |-> LowerChar(stripped[i])]
    IN  IF slug = <<>> THEN CityKey ELSE slug

InitSlug ==
    /\ slug_in \in SeqsUpTo(TextChars, MaxText)
    /\ slug_out = <<>>
    /\ TransformIdle /\ FrameIdle /\ CatIdle
    /\ FetchIdle /\ ReqIdle /\ CliIdle /\ CmpIdle /\ WebIdle
    /\ RecIdle /\ FactIdle /\ IoIdle

\* slugify(text), and slugify of its result
CallSlugify ==
    /\ slug_out = <<>>
    /\ slug_out' = <<[slug |-> Slugify(slug_in), again |-> Slugify(Slugify(slug_in))]>>
    /\ UNCHANGED <<slug_in, transformVars, frameVars, catVars, fetchVars, reqVars, cliVars,
                   cmpVars, webVars, recVars, factVars, ioVars>>

SlugSpec == InitSlug /\ [][CallSlugify]_vars

-----------------------------------------------------------------------------
(* C25 *)

\* what a character of the text leaves in the key: its letter or digit in
\* lowercase with the accent removed, nothing for any other character
PlainOf(c) ==
    CASE c = "e_acute" -> <<"e">>
      [] c = "B" -> <<"b">>
      [] c \in {"1", "a"} -> <<c>>
      [] OTHER -> <<>>

PlainText == Concat([i \in 1..Len(slug_in) |-> PlainOf(slug_in[i])])

\* the number of places where a letter or digit follows a separator that
\* itself follows a letter or digit
RECURSIVE Gaps(_, _)
Gaps(s, seen) ==
    IF s = <<>> THEN 0
    ELSE IF PlainOf(Head(s)) # <<>>
    THEN (IF seen = "gap" THEN 1 ELSE 0) + Gaps(Tail(s), "letter")
    ELSE IF Head(s) = "acute" THEN Gaps(Tail(s), seen)
    ELSE Gaps(Tail(s), IF seen = "start" THEN "start" ELSE "gap")

-----------------------------------------------------------------------------
(* utils.get_city_fun_fact and its cache file data/.cache/funfacts.json *)

\* calls of get_city_fun_fact in flight at once (request handlers, background tasks)
MaxCallers == 2

Callers == 1..MaxCallers

\* cached_facts[-7:]
FactCap == 7

\* key = city.strip().lower()
FactCities == {"bandung", "jakarta"}

\* the cache of a missing or unreadable file: no city has an entry
EmptyCache == [c \in FactCities |-> <<>>]

NoCacheFile == [data |-> EmptyCache, exists |-> FALSE, whole |-> FALSE]

\* _load_cache: the content of the file, {} if there is no file or its text is
\* not a JSON document
LoadCache(file) == IF file.exists /\ file.whole THEN file.data ELSE EmptyCache

\* the last n entries of a list
LastOf(facts, n) ==
    IF Len(facts) <= n THEN facts ELSE SubSeq(facts, Len(facts) - n + 1, Len(facts))

\* lines 182-184 without the membership test
RememberAlways(cached_facts, val) == LastOf(Append(cached_facts, val), FactCap)

\* lines 182-184: if val not in cached_facts: append, keep the last 7
Remember(cached_facts, val) ==
    IF val \in Range(cached_facts) THEN cached_facts
    ELSE LastOf(Append(cached_facts, val), FactCap)

\* why no text was generated: no GEMINI_API_KEY, no SDK, every model call failed
ServiceStates == {"ok", "fail", "nokey", "nosdk"}

NoAnswer == [kind |-> "none", fact |-> 0]

\* lines 292-295: the sentence returned when nothing was generated
Unavailable == [kind |-> "Maaf, fun fact hanya tersedia melalui Gemini.", fact |-> 0]

\* lines 297-301 if they were reached: a cached fact, or the generic sentence
LastResort(cached_facts) ==
    IF cached_facts # <<>> THEN [kind |-> "fact", fact |-> cached_facts[Len(cached_facts)]]
    ELSE [kind |-> "Maaf, belum bisa menampilkan fakta saat ini.", fact |-> 0]

\* what the function returns when the service gave no text
Fallback(cached_facts) == Unavailable

NotCalling == [ret |-> NoAnswer, city |-> "", val |-> 0, pc |-> "idle",
               service |-> "ok", cache |-> EmptyCache]

\* the facts the service can generate; 1..FactCap are in the file at the start
NewFacts == {FactCap, FactCap + 1}

InitFact ==
    /\ fact_file \in {NoCacheFile,
                      [data |-> [EmptyCache EXCEPT !["bandung"] = <<1>>], exists |-> TRUE,
                       whole |-> TRUE],
                      [data |-> [EmptyCache EXCEPT !["bandung"] = [i \in 1..FactCap |-> i]], exists |-> TRUE,
                       whole |-> TRUE]}
    /\ fact_calls = [p \in Callers |-> NotCalling]
    /\ TransformIdle /\ FrameIdle /\ CatIdle
    /\ FetchIdle /\ ReqIdle /\ CliIdle /\ CmpIdle /\ WebIdle
    /\ RecIdle /\ SlugIdle /\ IoIdle

\* get_city_fun_fact(city) up to the request to the service: the cache is
\* loaded; without a key or an SDK, or when every model call fails, the call
\* returns here
FactCall(p) ==
    /\ fact_calls[p].pc = "idle"
    /\ \E city \in FactCities, service \in ServiceStates :
        LET cache == LoadCache(fact_file)
        IN  fact_calls' = [fact_calls EXCEPT ![p] =
                IF service = "ok"
                THEN [ret |-> NoAnswer, city |-> city, val |-> 0,
                      pc |-> "generating", service |-> service, cache |-> cache]
                ELSE [ret |-> Fallback(cache[city]), city |-> city, val |-> 0,
                      pc |-> "returned", service |-> service, cache |-> cache]]
    /\ UNCHANGED <<fact_file, transformVars, frameVars, catVars, fetchVars, reqVars,
                   cliVars, cmpVars, webVars, recVars, slugVars, ioVars>>

\* the service answers with a text; the entry of the city is replaced in the
\* copy of the cache loaded at the start and _save_cache opens the file for
\* writing, which empties it
FactOpen(p) ==
    /\ fact_calls[p].pc = "generating"
    /\ \E val \in NewFacts :
        fact_calls' = [fact_calls EXCEPT
            ![p].pc = "writing",
            ![p].val = val,
            ![p].cache = [@ EXCEPT ![fact_calls[p].city] = Remember(@, val)]]
    /\ fact_file' = [data |-> EmptyCache, exists |-> TRUE, whole |-> FALSE]
    /\ UNCHANGED <<transformVars, frameVars, catVars, fetchVars, reqVars,
                   cliVars, cmpVars, webVars, recVars, slugVars, ioVars>>

\* write_text writes the whole dictionary; the call returns the new fact
FactWrite(p) ==
    /\ fact_calls[p].pc = "writing"
    /\ fact_file' = [data |-> fact_calls[p].cache, exists |-> TRUE, whole |-> TRUE]
    /\ fact_calls' = [fact_calls EXCEPT
            ![p].pc = "returned",
            ![p].ret = [kind |-> "fact", fact |-> fact_calls[p].val]]
    /\ UNCHANGED <<transformVars, frameVars, catVars, fetchVars, reqVars,
                   cliVars, cmpVars, webVars, recVars, slugVars, ioVars>>

NextFact == \E p \in Callers : FactCall(p) \/ FactOpen(p) \/ FactWrite(p)

FactSpec == InitFact /\ [][NextFact]_vars

-----------------------------------------------------------------------------
(* C26 *)

\* C26: a call of get_city_fun_fact made while the text service is unavailable
\* (no key, no SDK, or every model call failing) returns a fact cached earlier
\* for the city when the cache it loaded has one, and a generic sentence
\* otherwise.
C26_FallbackPrefersCachedFact ==
    \A p \in Callers :
        (fact_calls[p].pc = "returned" /\ fact_calls[p].service # "ok") =>
            IF fact_calls[p].cache[fact_calls[p].city] # <<>>
            THEN /\ fact_calls[p].ret.kind = "fact"
                 /\ fact_calls[p].ret.fact \in Range(fact_calls[p].cache[fact_calls[p].city])
            ELSE fact_calls[p].ret.kind \notin {"fact", "none"}

-----------------------------------------------------------------------------
(* C30 *)

\* every call has returned the fact it generated, no two of them for the same city
AllReturnedFacts ==
    /\ \A p \in Callers : fact_calls[p].pc = "returned" /\ fact_calls[p].ret.kind = "fact"
    /\ \A p, q \in Callers : p # q => fact_calls[p].city # fact_calls[q].city

\* C30: once concurrent calls for different cities have all returned the fact
\* they generated, the cache file holds, for each call, that fact in the list
\* of the call's city (no call erases or reverts the entry of another city);
\* the list kept for a city never has more than 7 facts and never the same
\* fact twice.
C30_NoLostUpdate ==
    /\ AllReturnedFacts =>
          /\ fact_file.exists /\ fact_file.whole
          /\ \A p \in Callers :
                fact_calls[p].ret.fact \in Range(fact_file.data[fact_calls[p].city])
    /\ \A c \in FactCities :
          /\ Len(fact_file.data[c]) <= 7
          /\ \A i, j \in 1..Len(fact_file.data[c]) :
                i # j => fact_file.data[c][i] # fact_file.data[c][j]

-----------------------------------------------------------------------------
(* One city's files under a writer and concurrent readers: fetch.run saving
   the bundle, transform.run reading it and saving the CSV, a reader of the
   CSV (web._load_csv) *)

\* calls of fetch.run made while the model runs
MaxFetches == 2

\* lines 129-132 of fetch.run: the four _save_json calls, in order
SaveOrder == <<"weather_ts", "air_ts", "weather", "air">>

IoPaths == Range(SaveOrder) \cup {"daily"}

\* a file: whole is FALSE from the moment it is opened for writing (which
\* empties it) until its text has been written; by is the fetch.run call whose
\* bundle the text is (for the CSV: the bundle it was computed from)
NoIoFile == [exists |-> FALSE, whole |-> FALSE, by |-> 0]
WholeFile(by) == [exists |-> TRUE, whole |-> TRUE, by |-> by]

\* open(path, "w") of Path.write_text and DataFrame.to_csv
OpenForWriting(by) == [exists |-> TRUE, whole |-> FALSE, by |-> by]

NotReading == [weather |-> <<>>, air |-> <<>>, outcome |-> "", pc |-> "idle"]

InitIo ==
    /\ \/ disk = [p \in IoPaths |-> IF p = "daily" THEN NoIoFile ELSE WholeFile(0)]
       \/ disk = [p \in IoPaths |-> NoIoFile]
    /\ procs = [fetch |-> [call |-> 0, pc |-> 0, open |-> FALSE],
                transform |-> NotReading,
                reader |-> <<>>]
    /\ TransformIdle /\ FrameIdle /\ CatIdle
    /\ FetchIdle /\ ReqIdle /\ CliIdle /\ CmpIdle /\ WebIdle
    /\ RecIdle /\ SlugIdle /\ FactIdle

IoOthers == <<transformVars, frameVars, catVars, fetchVars, reqVars, cliVars, cmpVars,
              webVars, recVars, slugVars, factVars>>

\* fetch.run has obtained its bundle and reaches line 129
FetchObtained ==
    /\ procs.fetch.pc = 0
    /\ procs.fetch.call < MaxFetches
    /\ procs' = [procs EXCEPT !.fetch = [call |-> @.call + 1, pc |-> 1, open |-> FALSE]]
    /\ UNCHANGED <<disk, IoOthers>>

\* _save_json: write_text opens the next file of the four
SaveOpen ==
    /\ procs.fetch.pc \in 1..Len(SaveOrder)
    /\ ~procs.fetch.open
    /\ disk' = [disk EXCEPT ![SaveOrder[procs.fetch.pc]] = OpenForWriting(procs.fetch.call)]
    /\ procs' = [procs EXCEPT !.fetch.open = TRUE]
    /\ UNCHANGED IoOthers

\* _save_json: the text is written and the file closed; after the fourth file
\* fetch.run returns
SaveWrite ==
    /\ procs.fetch.pc \in 1..Len(SaveOrder)
    /\ procs.fetch.open
    /\ disk' = [disk EXCEPT ![SaveOrder[procs.fetch.pc]] = WholeFile(procs.fetch.call)]
    /\ procs' = [procs EXCEPT !.fetch.open = FALSE,
                              !.fetch.pc = IF @ = Len(SaveOrder) THEN 0 ELSE @ + 1]
    /\ UNCHANGED IoOthers

\* a _save_json call raises (OSError) before it opens its file: fetch.run ends
\* with the files saved so far
SaveFails ==
    /\ procs.fetch.pc \in 1..Len(SaveOrder)
    /\ ~procs.fetch.open
    /\ procs' = [procs EXCEPT !.fetch.pc = 0]
    /\ UNCHANGED <<disk, IoOthers>>

\* transform.run, lines 57-60: both raw files must exist
TransformExists ==
    /\ procs.transform.pc = "idle"
    /\ procs' = [procs EXCEPT !.transform =
            IF disk["weather"].exists /\ disk["air"].exists
            THEN [NotReading EXCEPT !.pc = "weather"]
            ELSE [NotReading EXCEPT !.outcome = MissingInput]]
    /\ UNCHANGED <<disk, IoOthers>>

\* line 63: json.loads(weather_path.read_text())
TransformReadWeather ==
    /\ procs.transform.pc = "weather"
    /\ procs' = [procs EXCEPT
            !.transform.weather = <<disk["weather"]>>,
            !.transform.pc = IF disk["weather"].whole THEN "air" ELSE "idle",
            !.transform.outcome = IF disk["weather"].whole THEN "" ELSE "JSONDecodeError"]
    /\ UNCHANGED <<disk, IoOthers>>

\* line 64: json.loads(air_path.read_text())
TransformReadAir ==
    /\ procs.transform.pc = "air"
    /\ procs' = [procs EXCEPT
            !.transform.air = <<disk["air"]>>,
            !.transform.pc = IF disk["air"].whole THEN "to_csv" ELSE "idle",
            !.transform.outcome = IF disk["air"].whole THEN "" ELSE "JSONDecodeError"]
    /\ UNCHANGED <<disk, IoOthers>>

\* line 138: daily.to_csv(out_file) opens the CSV
ToCsvOpen ==
    /\ procs.transform.pc = "to_csv"
    /\ disk' = [disk EXCEPT !["daily"] = OpenForWriting(procs.transform.weather[1].by)]
    /\ procs' = [procs EXCEPT !.transform.pc = "writing"]
    /\ UNCHANGED IoOthers

\* line 138: the rows are written and the file closed; run returns
ToCsvWrite ==
    /\ procs.transform.pc = "writing"
    /\ disk' = [disk EXCEPT !["daily"] = WholeFile(procs.transform.weather[1].by)]
    /\ procs' = [procs EXCEPT !.transform.pc = "idle", !.transform.outcome = "ok"]
    /\ UNCHANGED IoOthers

\* web._load_csv of a request that found the CSV: pd.read_csv(path)
ReaderLoads ==
    /\ disk["daily"].exists
    /\ procs' = [procs EXCEPT !.reader = <<disk["daily"]>>]
    /\ UNCHANGED <<disk, IoOthers>>

NextIo ==
    \/ FetchObtained \/ SaveOpen \/ SaveWrite \/ SaveFails
    \/ TransformExists \/ TransformReadWeather \/ TransformReadAir
    \/ ToCsvOpen \/ ToCsvWrite
    \/ ReaderLoads

IoSpec == InitIo /\ [][NextIo]_vars

-----------------------------------------------------------------------------
(* C21 *)

\* what the readers have found in the files they read
Observed21 == {procs.transform.weather, procs.transform.air, procs.reader} \ {<<>>}

\* C21: a reader of a raw JSON file or of the CSV, running concurrently with
\* the writer of that file, finds the complete text of one write, the old or
\* the new one, never a file that has been emptied and not yet written.
C21_ReadersSeeWholeFiles == \A o \in Observed21 : o[1].whole

-----------------------------------------------------------------------------
(* C27 *)

\* C27: the weather and the air-quality document that one transform.run has
\* read come from the same fetch.run call, whatever the interleaving with
\* fetch.run calls and also when a fetch.run call failed between two saves.
C27_BundleFromOneFetch ==
    (procs.transform.weather # <<>> /\ procs.transform.air # <<>>
        /\ procs.transform.weather[1].whole /\ procs.transform.air[1].whole) =>
        procs.transform.weather[1].by = procs.transform.air[1].by

====
